---- MODULE Spec2Model ----
(***************************************************************************)
(* git-fastcdc (src/git_fastcdc.py): a git long-running filter that        *)
(* splits files into content-defined chunks on clean, stores each chunk    *)
(* as a blob, emits a manifest of "<hash>.cdc" lines, reassembles the      *)
(* file on smudge, and keeps a ledger of chunk hashes on the branch        *)
(* git-fastcdc as a chain of commits.                                      *)
(*                                                                         *)
(* Units.  File content is a sequence over Bytes.  Text (manifests,        *)
(* protocol lines, tree entry names) is a sequence of tokens: a token is   *)
(* a string standing for one character run that the code never splits      *)
(* (a 40-digit hash, "cdc", "status=success") or for one character         *)
(* (".", "-", "_", "/", "\n").                                             *)
(***************************************************************************)
EXTENDS Integers, Sequences, FiniteSets, TLC

VARIABLES
    store,        \* git object database, blobs only: hash -> content
    ref,          \* refs/heads/git-fastcdc: NoCommit or a commit
    tracked,      \* git's staging area: path -> text of the staged blob
    pc,           \* per process: position in process() / update()
    cdcs,         \* per process: the working set (process: cdcs, update: cdcs)
    cdcs_recent,  \* per process: read_recent() (process) / cdcs_log (update)
    base_hints,   \* per process: hash -> hint
    wflag,        \* per process: the local `write` of process()
    ncmd,         \* per process: commands handled so far
    log,          \* per process: frames read/written since the last command line
    commit,       \* per process: write_cdcs's local `commit`
    force,        \* per process: write_cdcs's local `force`
    to_write,     \* per process: the set handed to write_cdcs
    tip0,         \* per process: the branch tip git_rev_parse returned in write_cdcs
    cleaned,      \* history: the [input, manifest, path] of every clean command
    size,         \* get_avg_size: argument of the last call
    avg_size,     \* get_avg_size: result of the last call
    prev_size,    \* get_avg_size: argument of the call before
    prev_avg,     \* get_avg_size: result of the call before
    batch,        \* per process: _batch, "none" or "open" (git cat-file --batch)
    ondisk,       \* git config fastcdc.ondisk is "true"
    cl,           \* batch_cleanup in steps: its position, the subprocess, the waits
    ch,           \* git_cat_yield in steps: the channel's bytes, the pieces read
    ck            \* clean in steps: the chunks still to hash, store and emit

vars == <<store, ref, tracked, pc, cdcs, cdcs_recent, base_hints, wflag, ncmd,
          log, commit, force, to_write, tip0, cleaned,
          size, avg_size, prev_size, prev_avg, batch, ondisk, cl, ch, ck>>

sessionVars == <<pc, cdcs, cdcs_recent, base_hints, wflag, ncmd, log, commit,
                 force, to_write, tip0>>
sizerVars == <<size, avg_size, prev_size, prev_avg>>
repoVars == <<store, ref, tracked, cleaned>>
\* what the commands of a whole session leave alone: the configuration and
\* the step-by-step runs of batch_cleanup, git_cat_yield and clean
stepVars == <<ondisk, cl, ch, ck>>

(***************************************************************************)
(* Bounds of the model.                                                    *)
(***************************************************************************)
MaxLen == 2        \* longest file content, in bytes
MaxCmds == 2       \* commands one filter session handles
MaxBits == 20      \* largest bit length of size/16 the sizer is sampled at
MaxPages == 2      \* full pages of the largest append of the pagination runs
MaxRaceCmds == 1   \* commands each of two concurrent sessions handles
MaxLines == 3      \* lines of the manifests of the smudge runs
MaxSplit == 2      \* latest place a payload is cut in two frames; full pieces of a lookup

(***************************************************************************)
(* Program constants.                                                      *)
(***************************************************************************)
avg_min == 256 * 1024
pkt_size == 65516
PageSize == 1500
RecentLimit == 10
HashLen == 40

Bytes == {0, 1}

Max(a, b) == IF a >= b THEN a ELSE b
Min(a, b) == IF a <= b THEN a ELSE b

RECURSIVE Pow2(_)
Pow2(n) == IF n = 0 THEN 1 ELSE 2 * Pow2(n - 1)

(***************************************************************************)
(* Chunk sizer: get_avg_size.                                              *)
(***************************************************************************)
\* int.bit_length()
RECURSIVE bit_length(_)
bit_length(n) == IF n = 0 THEN 0 ELSE 1 + bit_length(n \div 2)

\* x >> n and x << n on non-negative integers
Shr(x, n) == x \div Pow2(n)
Shl(x, n) == x * Pow2(n)

\* int(size / 16): a float division, exact for every size below 2^53
\* (the sizes here stay below 2^31), then truncated.
Box(sz) == sz \div 16

get_avg_size_K3(sz) ==
    LET box == Box(sz)
        bits == bit_length(box)
        shift == Max(bits - 3, 0)
    IN  Max(avg_min, Shl(Shr(box, shift), shift))

get_avg_size(sz) ==
    LET box == Box(sz)
        bits == bit_length(box)
        shift == Max(bits - 4, 0)
        quant == Shl(Shr(box, shift), shift)
    IN  Max(avg_min, quant)

(***************************************************************************)
(* Sequences and text.                                                     *)
(***************************************************************************)
RECURSIVE Concat(_)
Concat(seqs) == IF seqs = <<>> THEN <<>> ELSE Head(seqs) \o Concat(Tail(seqs))

\* "".join(tokens): the string a token sequence spells
RECURSIVE Join(_)
Join(toks) == IF toks = <<>> THEN "" ELSE Head(toks) \o Join(Tail(toks))

Range(f) == {f[i] : i \in DOMAIN f}

\* index of the first / last occurrence of token c in t, 0 when absent
FirstIndex(t, c) ==
    IF \E i \in 1..Len(t) : t[i] = c
    THEN CHOOSE i \in 1..Len(t) : t[i] = c /\ \A j \in 1..(i - 1) : t[j] # c
    ELSE 0
LastIndex(t, c) ==
    IF \E i \in 1..Len(t) : t[i] = c
    THEN CHOOSE i \in 1..Len(t) : t[i] = c /\ \A j \in (i + 1)..Len(t) : t[j] # c
    ELSE 0

\* str.splitlines()
RECURSIVE splitlines(_)
splitlines(t) ==
    IF t = <<>> THEN <<>>
    ELSE LET i == FirstIndex(t, "\n")
         IN  IF i = 0 THEN <<t>>
             ELSE <<SubSeq(t, 1, i - 1)>> \o splitlines(SubSeq(t, i + 1, Len(t)))

Whitespace == {"\n", " "}

\* str.strip(): leading and trailing whitespace removed
RECURSIVE lstrip(_, _)
lstrip(t, cs) == IF t # <<>> /\ Head(t) \in cs THEN lstrip(Tail(t), cs) ELSE t
RECURSIVE rstrip(_, _)
rstrip(t, cs) ==
    IF t # <<>> /\ t[Len(t)] \in cs THEN rstrip(SubSeq(t, 1, Len(t) - 1), cs) ELSE t
strip(t, cs) == rstrip(lstrip(t, cs), cs)

\* str.replace(c, with) for a one-character c; with is a token sequence
RECURSIVE replace(_, _, _)
replace(t, c, with) ==
    IF t = <<>> THEN <<>>
    ELSE (IF Head(t) = c THEN with ELSE <<Head(t)>>) \o replace(Tail(t), c, with)

\* PurePath(name).name: the last component of a path
PathName(t) == LET i == LastIndex(t, "/") IN SubSeq(t, i + 1, Len(t))
\* PurePath(name).parent as text; "." when the path has one component
PathParent(t) ==
    LET i == LastIndex(t, "/") IN IF i = 0 THEN <<".">> ELSE SubSeq(t, 1, i - 1)
\* PurePath(name).stem: the last component without its last suffix
PathStem(t) ==
    LET name == PathName(t)
        i == LastIndex(name, ".")
    IN  IF 1 < i /\ i < Len(name) THEN SubSeq(name, 1, i - 1) ELSE name
\* the last suffix of the last component, without the dot
PathExt(t) ==
    LET name == PathName(t)
        i == LastIndex(name, ".")
    IN  IF 1 < i /\ i < Len(name) THEN SubSeq(name, i + 1, Len(name)) ELSE <<>>

make_hint(pathname) ==
    LET h0 == PathParent(pathname) \o <<"_">> \o PathStem(pathname)
        h1 == replace(h0, "/", <<>>)
        h2 == replace(h1, "-", <<"_">>)
        h3 == strip(h2, {"."})
        h4 == strip(h3, {"_"})
        h5 == strip(h4, {"."})
        h6 == strip(h5, {"_"})
    IN  Join(h6)

(***************************************************************************)
(* git pkt-line.  A frame is its length prefix and its payload; the        *)
(* prefix counts itself (4) and is 0 for a flush packet.                   *)
(***************************************************************************)
Pkt(data) == [len |-> Len(data) + 4, data |-> data]
FlushPkt == [len |-> 0, data |-> <<>>]

\* read_pkt_line on the next frame of the stream; an exhausted stream reads
\* as the empty string (read(4) returns b"")
read_pkt_line(stream) ==
    IF stream = <<>> THEN <<>>
    ELSE IF Head(stream).len = 0 THEN <<>>
    ELSE Head(stream).data

\* `while pkg := read_pkt_line(): ...`: the payloads read up to the first
\* empty result
RECURSIVE ReadPkgs(_)
ReadPkgs(stream) ==
    IF read_pkt_line(stream) = <<>> THEN <<>>
    ELSE <<read_pkt_line(stream)>> \o ReadPkgs(Tail(stream))

\* the frames those reads consumed (the terminating one included)
FramesRead(stream) == SubSeq(stream, 1, Min(Len(ReadPkgs(stream)) + 1, Len(stream)))

RdEvents(frames) == [i \in 1..Len(frames) |-> [op |-> "r", pkt |-> frames[i]]]
WrEvents(frames) == [i \in 1..Len(frames) |-> [op |-> "w", pkt |-> frames[i]]]

write_pkt_line(data) == Pkt(data)
write_pkt_line_str(string) == write_pkt_line(string)
flush_pkt == FlushPkt

(***************************************************************************)
(* The object store: git hash-object -w and git cat-file --batch.          *)
(***************************************************************************)
RECURSIVE HexDigits(_)
HexDigits(data) ==
    IF data = <<>> THEN ""
    ELSE (IF Head(data) = 0 THEN "0" ELSE "1") \o HexDigits(Tail(data))

\* The object id of a blob: one id per content, different contents have
\* different ids.
ObjectId(data) == "h" \o HexDigits(data)

\* git_hash_blob(data): the id; the blob is written to the store (-w)
git_hash_blob(data) == ObjectId(data)
\* variant: git hash-object without -w, the id is computed and nothing is
\* written
StoreBlob_no_write(st, data) == st

StoreBlob(st, data) ==
    [h \in DOMAIN st \cup {ObjectId(data)} |->
        IF h = ObjectId(data) THEN data ELSE st[h]]

EmptyStore == [h \in {} |-> <<>>]

\* the read loop of git_cat_yield: pieces of chunk_size bytes, the rest last
RECURSIVE YieldPieces(_, _)
YieldPieces(data, chunk_size) ==
    IF Len(data) > 0
    THEN IF Len(data) >= chunk_size
         THEN <<SubSeq(data, 1, chunk_size)>>
              \o YieldPieces(SubSeq(data, chunk_size + 1, Len(data)), chunk_size)
         ELSE <<data>>
    ELSE <<>>

\* git_cat_yield(entry, ...): cat-file answers "<id> blob <size>" and the
\* bytes, or "<entry> missing", whose last word int() rejects (ValueError)
git_cat_yield(st, entry, chunk_size) ==
    IF entry \in DOMAIN st
    THEN [ok |-> TRUE, pieces |-> YieldPieces(st[entry], chunk_size)]
    ELSE [ok |-> FALSE, pieces |-> <<>>]

(***************************************************************************)
(* The chunker (the fastcdc library): ordered ranges that cover the input  *)
(* without gap or overlap, their boundaries a function of the content and  *)
(* of avg_size only.  Here a chunk ends after a byte 1 (the content-       *)
(* defined boundary), at the largest chunk size, or at the end of input.   *)
(***************************************************************************)
MaxChunk(avg) == 8 * avg

RECURSIVE CutFrom(_, _, _, _)
CutFrom(data, offset, i, avg) ==
    IF offset > Len(data) THEN <<>>
    ELSE IF i = Len(data) \/ data[i] = 1 \/ i - offset + 1 >= MaxChunk(avg)
         THEN <<[offset |-> offset - 1, length |-> i - offset + 1]>>
              \o CutFrom(data, i + 1, i + 1, avg)
         ELSE CutFrom(data, offset, i + 1, avg)

fastcdc(data, avg) == CutFrom(data, 1, 1, avg)

\* buffer[cdc.offset : cdc.offset + cdc.length]
Slice(data, cdc) == SubSeq(data, cdc.offset + 1, cdc.offset + cdc.length)

(***************************************************************************)
(* clean and smudge: one whole handler each.  `stream` is what git sends   *)
(* after the command header: content frames, then a flush packet.  The     *)
(* result lists the frames read and written, in the order of the code.     *)
(***************************************************************************)
StatusSuccess == <<"status=success", "\n">>
ManifestLine(hash) == <<hash, ".", "cdc", "\n">>

\* the chunks of `data` hashed and stored one after the other (the loop of
\* lines 265-270)
RECURSIVE StoreChunks(_, _, _)
StoreChunks(st, data, chunks) ==
    IF chunks = <<>> THEN st
    ELSE StoreChunks(StoreBlob(st, Slice(data, Head(chunks))), data, Tail(chunks))

\* variant: the response is started as soon as the command is known, before
\* the content frames are read
clean_eager(stream, pathname, st, cd, bh) ==
    LET data == Concat(ReadPkgs(stream))
        sz == Len(data)
        avg == get_avg_size(sz)
        chunks == fastcdc(data, avg)
        hashes == [i \in 1..Len(chunks) |-> git_hash_blob(Slice(data, chunks[i]))]
        lines == [i \in 1..Len(chunks) |-> write_pkt_line_str(ManifestLine(hashes[i]))]
    IN  [ok |-> TRUE,
         store |-> StoreChunks(st, data, chunks),
         cdcs |-> cd \cup Range(hashes),
         base_hints |-> [h \in DOMAIN bh \cup Range(hashes) |->
                            IF h \in Range(hashes) THEN make_hint(pathname) ELSE bh[h]],
         size |-> sz,
         avg_size |-> avg,
         events |-> WrEvents(<<write_pkt_line_str(StatusSuccess), flush_pkt>>)
                    \o RdEvents(FramesRead(stream))
                    \o WrEvents(lines \o <<flush_pkt, flush_pkt>>)]

\* variant: a chunk the session has already seen is stored but gets no
\* manifest line
clean_skip_seen(stream, pathname, st, cd, bh) ==
    LET data == Concat(ReadPkgs(stream))
        sz == Len(data)
        avg == get_avg_size(sz)
        chunks == fastcdc(data, avg)
        hashes == [i \in 1..Len(chunks) |-> git_hash_blob(Slice(data, chunks[i]))]
        fresh == SelectSeq(hashes, LAMBDA h : h \notin cd)
        lines == [i \in 1..Len(fresh) |-> write_pkt_line_str(ManifestLine(fresh[i]))]
    IN  [ok |-> TRUE,
         store |-> StoreChunks(st, data, chunks),
         cdcs |-> cd \cup Range(hashes),
         base_hints |-> [h \in DOMAIN bh \cup Range(hashes) |->
                            IF h \in Range(hashes) THEN make_hint(pathname) ELSE bh[h]],
         size |-> sz,
         avg_size |-> avg,
         events |-> RdEvents(FramesRead(stream))
                    \o WrEvents(<<write_pkt_line_str(StatusSuccess), flush_pkt>>)
                    \o WrEvents(lines \o <<flush_pkt, flush_pkt>>)]

\* variant: the manifest line is written without its newline
clean_no_newline(stream, pathname, st, cd, bh) ==
    LET data == Concat(ReadPkgs(stream))
        sz == Len(data)
        avg == get_avg_size(sz)
        chunks == fastcdc(data, avg)
        hashes == [i \in 1..Len(chunks) |-> git_hash_blob(Slice(data, chunks[i]))]
        lines == [i \in 1..Len(chunks) |->
                     write_pkt_line_str(<<hashes[i], ".", "cdc">>)]
    IN  [ok |-> TRUE,
         store |-> StoreChunks(st, data, chunks),
         cdcs |-> cd \cup Range(hashes),
         base_hints |-> [h \in DOMAIN bh \cup Range(hashes) |->
                            IF h \in Range(hashes) THEN make_hint(pathname) ELSE bh[h]],
         size |-> sz,
         avg_size |-> avg,
         events |-> RdEvents(FramesRead(stream))
                    \o WrEvents(<<write_pkt_line_str(StatusSuccess), flush_pkt>>)
                    \o WrEvents(lines \o <<flush_pkt, flush_pkt>>)]

clean(stream, pathname, st, cd, bh) ==
    LET \* while pkg := read_pkt_line(): io.write(pkg)
        data == Concat(ReadPkgs(stream))
        sz == Len(data)
        avg == get_avg_size(sz)
        chunks == fastcdc(data, avg)
        hashes == [i \in 1..Len(chunks) |-> git_hash_blob(Slice(data, chunks[i]))]
        lines == [i \in 1..Len(chunks) |-> write_pkt_line_str(ManifestLine(hashes[i]))]
    IN  [ok |-> TRUE,
         store |-> StoreChunks(st, data, chunks),
         cdcs |-> cd \cup Range(hashes),
         base_hints |-> [h \in DOMAIN bh \cup Range(hashes) |->
                            IF h \in Range(hashes) THEN make_hint(pathname) ELSE bh[h]],
         size |-> sz,
         avg_size |-> avg,
         events |-> RdEvents(FramesRead(stream))
                    \o WrEvents(<<write_pkt_line_str(StatusSuccess), flush_pkt>>)
                    \o WrEvents(lines \o <<flush_pkt, flush_pkt>>)]

(***************************************************************************)
(* clean_ondisk: the content is spooled to a temporary file.  The file is  *)
(* its bytes and the position of the handle f.                             *)
(***************************************************************************)
EmptyFile == [data |-> <<>>, pos |-> 0]
\* f.write(pkg): at the position, which moves behind what was written
FileWrite(f, pkg) ==
    [data |-> SubSeq(f.data, 1, f.pos) \o pkg
              \o SubSeq(f.data, f.pos + Len(pkg) + 1, Len(f.data)),
     pos |-> f.pos + Len(pkg)]
\* `while pkg := read_pkt_line(): f.write(pkg)`
RECURSIVE Spool(_, _)
Spool(pkgs, f) == IF pkgs = <<>> THEN f ELSE Spool(Tail(pkgs), FileWrite(f, Head(pkgs)))
\* f.seek(offset); f.read(length): up to length bytes, fewer at the end
FileReadAt(f, offset, length) ==
    SubSeq(f.data, Min(offset, Len(f.data)) + 1, Min(offset + length, Len(f.data)))

RECURSIVE StoreAll(_, _)
StoreAll(st, blobs) ==
    IF blobs = <<>> THEN st ELSE StoreAll(StoreBlob(st, Head(blobs)), Tail(blobs))

\* lines 281-294 on the spooled file: f.tell() is the size, fastcdc reads
\* the file by its name, each chunk is read back through f
SpooledClean(f, stream, pathname, st, cd, bh) ==
    LET sz == f.pos
        avg == get_avg_size(sz)
        chunks == fastcdc(f.data, avg)
        blobs == [i \in 1..Len(chunks) |->
                     FileReadAt(f, chunks[i].offset, chunks[i].length)]
        hashes == [i \in 1..Len(chunks) |-> git_hash_blob(blobs[i])]
        lines == [i \in 1..Len(chunks) |-> write_pkt_line_str(ManifestLine(hashes[i]))]
    IN  [ok |-> TRUE,
         store |-> StoreAll(st, blobs),
         cdcs |-> cd \cup Range(hashes),
         base_hints |-> [h \in DOMAIN bh \cup Range(hashes) |->
                            IF h \in Range(hashes) THEN make_hint(pathname) ELSE bh[h]],
         size |-> sz,
         avg_size |-> avg,
         events |-> RdEvents(FramesRead(stream))
                    \o WrEvents(<<write_pkt_line_str(StatusSuccess), flush_pkt>>)
                    \o WrEvents(lines \o <<flush_pkt, flush_pkt>>)]

\* variant: every frame is written at the start of the file
clean_ondisk_rewound(stream, pathname, st, cd, bh) ==
    LET pkgs == ReadPkgs(stream)
    IN  SpooledClean(IF pkgs = <<>> THEN EmptyFile
                     ELSE FileWrite(EmptyFile, pkgs[Len(pkgs)]),
                     stream, pathname, st, cd, bh)

clean_ondisk(stream, pathname, st, cd, bh) ==
    SpooledClean(Spool(ReadPkgs(stream), EmptyFile), stream, pathname, st, cd, bh)

\* the loop of lines 310-315: the content frames written, and whether every
\* lookup succeeded; a failed lookup raises and ends the loop
\* variant: every line is looked up, an empty one too (no `if line:`)
RECURSIVE SmudgeLines_no_skip(_, _)
SmudgeLines_no_skip(lines, st) ==
    IF lines = <<>> THEN [ok |-> TRUE, frames |-> <<>>]
    ELSE LET line == strip(Head(lines), Whitespace)
             hash == Join(PathStem(line))
             got == git_cat_yield(st, hash, pkt_size)
             rest == SmudgeLines_no_skip(Tail(lines), st)
             frames == [i \in 1..Len(got.pieces) |-> write_pkt_line(got.pieces[i])]
         IN  IF got.ok
             THEN [ok |-> rest.ok, frames |-> frames \o rest.frames]
             ELSE [ok |-> FALSE, frames |-> <<>>]

RECURSIVE SmudgeLines(_, _)
SmudgeLines(lines, st) ==
    IF lines = <<>> THEN [ok |-> TRUE, frames |-> <<>>]
    ELSE LET line == strip(Head(lines), Whitespace)
             hash == Join(PathStem(line))
         IN  IF line = <<>> THEN SmudgeLines(Tail(lines), st)
             ELSE LET got == git_cat_yield(st, hash, pkt_size)
                      rest == SmudgeLines(Tail(lines), st)
                      frames == [i \in 1..Len(got.pieces) |->
                                    write_pkt_line(got.pieces[i])]
                  IN  IF got.ok
                      THEN [ok |-> rest.ok, frames |-> frames \o rest.frames]
                      ELSE [ok |-> FALSE, frames |-> <<>>]

smudge(stream, st) ==
    LET data == Concat(ReadPkgs(stream))
        body == SmudgeLines(splitlines(data), st)
    IN  [ok |-> body.ok,
         events |-> RdEvents(FramesRead(stream))
                    \o WrEvents(<<write_pkt_line_str(StatusSuccess), flush_pkt>>)
                    \o WrEvents(body.frames)
                    \o (IF body.ok THEN WrEvents(<<flush_pkt, flush_pkt>>) ELSE <<>>)]

(***************************************************************************)
(* The index: refs/heads/git-fastcdc.  A commit is identified by what it   *)
(* holds, its tree and its ancestry, so a commit is written here as the    *)
(* sequence of the trees of its first-parent chain, oldest first, itself   *)
(* last; NoCommit (the empty chain) is "the branch does not exist".  A     *)
(* tree is a set of entries [mode, name, hash].                            *)
(***************************************************************************)
NoCommit == <<>>

\* variant: the commit is made without -p
git_commit_tree_orphan(tree, parent) == <<tree>>

\* git commit-tree <tree> -m cdc [-p <parent>]
git_commit_tree(tree, parent) == Append(parent, tree)

\* str.rpartition(c)
RPartition(t, c) ==
    LET i == LastIndex(t, c)
    IN  IF i = 0 THEN [head |-> <<>>, sep |-> <<>>, tail |-> t]
        ELSE [head |-> SubSeq(t, 1, i - 1), sep |-> <<c>>,
              tail |-> SubSeq(t, i + 1, Len(t))]

\* git rev-list [-n limit] <commit>: the commits newest first, here each by
\* its tree (read_trees cats "<rev>^{tree}"); limit 0 is "no limit"
read_trees(branch, rev_limit) ==
    LET n == Len(branch)
        k == IF rev_limit = 0 THEN n ELSE Min(rev_limit, n)
    IN  [i \in 1..k |-> branch[n + 1 - i]]

\* the entries of a tree as parse_git_tree lists them
parse_git_tree(tree) == tree

CdcEntries(tree) == {e \in parse_git_tree(tree) : RPartition(e.name, ".").tail = <<"cdc">>}

\* variant: no rev_limit, every snapshot is read
read_recent_unlimited(branch) ==
    UNION {{e.hash : e \in CdcEntries(t)} : t \in Range(read_trees(branch, 0))}

read_recent(branch) ==
    UNION {{e.hash : e \in CdcEntries(t)} : t \in Range(read_trees(branch, RecentLimit))}

\* base_hints after the trees were scanned in order: a later tree (an older
\* commit) overwrites the hint an earlier one set
RECURSIVE ScanHints(_, _)
ScanHints(trees, bh) ==
    IF trees = <<>> THEN bh
    ELSE LET hinted == {e \in CdcEntries(Head(trees)) :
                           RPartition(e.name, "-").head # <<>>}
             hintOf(h) == LET e == CHOOSE x \in hinted : x.hash = h
                          IN  Join(RPartition(e.name, "-").head)
         IN  ScanHints(Tail(trees),
                       [h \in DOMAIN bh \cup {e.hash : e \in hinted} |->
                           IF \E e \in hinted : e.hash = h THEN hintOf(h) ELSE bh[h]])

NoHints == [h \in {} |-> ""]

read_cdcs(branch) ==
    LET trees == read_trees(branch, 0)
    IN  [cdcs |-> UNION {{e.hash : e \in CdcEntries(t)} : t \in Range(trees)},
         base_hints |-> ScanHints(trees, NoHints)]

(***************************************************************************)
(* update: the tracked files that match a filter pattern, and their        *)
(* staged manifests.                                                       *)
(***************************************************************************)
\* .gitattributes, one record per line: the first word (shlex.split(line)[0])
\* and whether the line contains "filter=git_fastcdc"
GitAttributes ==
    << [match |-> <<"*", ".", "bin">>, filter |-> TRUE],
       [match |-> <<"/", ".", "gitattributes">>, filter |-> FALSE],
       [match |-> <<"/", ".", "gitignore">>, filter |-> FALSE] >>

\* fnmatch(name, pat) for the patterns used here: "*<suffix>" or a literal
fnmatch(name, pat) ==
    IF pat # <<>> /\ Head(pat) = "*"
    THEN LET suffix == Tail(pat)
         IN  /\ Len(name) >= Len(suffix)
             /\ SubSeq(name, Len(name) - Len(suffix) + 1, Len(name)) = suffix
    ELSE name = pat

\* variant: every tracked file is read, filter or not
check_files_any(file_list) == file_list

check_files(file_list) ==
    {entry \in file_list :
        \E i \in 1..Len(GitAttributes) :
            GitAttributes[i].filter /\ fnmatch(entry, GitAttributes[i].match)}

\* len(str): an object id has HashLen characters, any other token counts
\* its own characters
ObjectIds == {ObjectId(d) : d \in UNION {[1..n -> Bytes] : n \in 0..(MaxLen + 1)}}
StrLen(toks) ==
    IF Len(toks) = 1 /\ toks[1] \in ObjectIds THEN HashLen
    ELSE Len(Join(toks))

\* read_blobs on one staged text: the *.cdc lines' stems become hints'
\* keys, and members of cdcs when they are HashLen long
BlobStems(text) ==
    {Join(PathStem(l)) : l \in {x \in Range(splitlines(text)) :
                                   fnmatch(x, <<"*", ".", "cdc">>)}}
BlobHashes(text) ==
    {Join(PathStem(l)) : l \in {x \in Range(splitlines(text)) :
                                   /\ fnmatch(x, <<"*", ".", "cdc">>)
                                   /\ StrLen(PathStem(x)) = HashLen}}

read_blobs(entry, text, cd, bh) ==
    [cdcs |-> cd \cup BlobHashes(text),
     base_hints |-> [h \in DOMAIN bh \cup BlobStems(text) |->
                        IF h \in BlobStems(text) THEN make_hint(entry) ELSE bh[h]]]

\* the loop of lines 545-546 over the files in the given order
RECURSIVE ReadAllBlobs(_, _, _, _)
ReadAllBlobs(entries, staged, cd, bh) ==
    IF entries = <<>> THEN [cdcs |-> cd, base_hints |-> bh]
    ELSE LET r == read_blobs(Head(entries), staged[Head(entries)], cd, bh)
         IN  ReadAllBlobs(Tail(entries), staged, r.cdcs, r.base_hints)

(***************************************************************************)
(* write_cdcs: the new hashes paged into trees, one commit per tree        *)
(* chained on the branch tip, and the branch moved to the last commit.     *)
(***************************************************************************)
\* len(range(0, n, chunk_size)): the number of pieces chunk_seq returns
NumPages(n, chunk_size) == (n + chunk_size - 1) \div chunk_size

\* variant: range(0, len(input) - chunk_size + 1, chunk_size), which drops a
\* last piece that is not full
chunk_seq_full_only(input, chunk_size) ==
    [k \in 1..(Len(input) \div chunk_size) |->
        SubSeq(input, (k - 1) * chunk_size + 1, k * chunk_size)]

chunk_seq(input, chunk_size) ==
    [k \in 1..NumPages(Len(input), chunk_size) |->
        SubSeq(input, (k - 1) * chunk_size + 1, Min(k * chunk_size, Len(input)))]

AttrsData == <<"*.cdc binary">>
AttrsId == "hattr"
AttrsEntry == [mode |-> "100644", name |-> <<".", "gitattributes">>, hash |-> AttrsId]

\* the tree line of one hash: "<hint>-<hash>.cdc" or "<hash>.cdc"
CdcEntry(cdc, bh) ==
    LET hint == IF cdc \in DOMAIN bh THEN bh[cdc] ELSE ""
    IN  [mode |-> "100644",
         name |-> IF hint # "" THEN <<hint, "-", cdc, ".", "cdc">>
                  ELSE <<cdc, ".", "cdc">>,
         hash |-> cdc]

\* lines 405-417: one tree per page of the list
BuildTrees(cdclist, bh) ==
    LET pages == chunk_seq(cdclist, PageSize)
    IN  [k \in 1..Len(pages) |->
            {CdcEntry(cdc, bh) : cdc \in Range(pages[k])} \cup {AttrsEntry}]

\* variant: the chain of the new commits starts without the commit
\* git_rev_parse gave
CommitTrees_from_root(trees, parent) == IF trees = <<>> THEN parent ELSE trees

\* lines 425-430: each tree committed on top of the commit before
RECURSIVE CommitTrees(_, _)
CommitTrees(trees, parent) ==
    IF trees = <<>> THEN parent
    ELSE CommitTrees(Tail(trees), git_commit_tree(Head(trees), parent))

\* write_cdcs up to the last commit-tree: `tip` is what git_rev_parse gave.
\* git_hash_blob(b"*.cdc binary") writes the attributes blob once per page.
\* variant: nothing is written when the tip snapshot lists every hash given
write_cdcs_skip_covered(cdclist, bh, tip, st) ==
    LET trees == BuildTrees(cdclist, bh)
        covered == tip # NoCommit /\ Range(cdclist) \subseteq
                       {e.hash : e \in CdcEntries(tip[Len(tip)])}
    IN  [commit |-> IF covered THEN tip ELSE CommitTrees(trees, tip),
         force |-> tip # NoCommit,
         store |-> IF trees = <<>> THEN st
                   ELSE [h \in DOMAIN st \cup {AttrsId} |->
                            IF h = AttrsId THEN AttrsData ELSE st[h]]]

write_cdcs(cdclist, bh, tip, st) ==
    LET trees == BuildTrees(cdclist, bh)
    IN  [commit |-> CommitTrees(trees, tip),
         force |-> tip # NoCommit,
         store |-> IF trees = <<>> THEN st
                   ELSE [h \in DOMAIN st \cup {AttrsId} |->
                            IF h = AttrsId THEN AttrsData ELSE st[h]]]

\* git_branch(cdcbranch, commit, force) on the branch as it is now: without
\* -f git refuses to create a branch that exists (CalledProcessError); a
\* commit of None cannot be passed to run() at all
git_branch(branch, new, frc) ==
    IF new = NoCommit THEN [ok |-> FALSE, ref |-> branch]
    ELSE IF frc THEN [ok |-> TRUE, ref |-> new]
    ELSE IF branch # NoCommit THEN [ok |-> FALSE, ref |-> branch]
    ELSE [ok |-> TRUE, ref |-> new]

(***************************************************************************)
(* The processes: two filter sessions (git-fastcdc process) and one        *)
(* git-fastcdc update, and what git sends them.                            *)
(***************************************************************************)
Sessions == {"s1", "s2"}
Updater == "u"
Procs == Sessions \cup {Updater}

\* tracked paths: two match "*.bin filter=git_fastcdc", one does not
PathA == <<"x", ".", "bin">>
PathB == <<"d", "/", "y", "-", "z", ".", "bin">>
PathN == <<"notes", ".", "txt">>
FilterPaths == {PathA, PathB}
\* its text names an object id that is no chunk of any manifest
NotesText == <<"h11", ".", "cdc", "\n">>

Contents == UNION {[1..n -> Bytes] : n \in 0..MaxLen}

\* how git frames a payload: whole, or cut in two after `cut` elements;
\* an empty payload is sent as no frame at all
Frames(data, cut) ==
    IF data = <<>> THEN <<>>
    ELSE IF cut = 0 THEN <<Pkt(data)>>
    ELSE <<Pkt(SubSeq(data, 1, cut)), Pkt(SubSeq(data, cut + 1, Len(data)))>>
Cuts(data) == {0} \cup 1..Min(Len(data) - 1, MaxSplit)

\* the command header git sends: command=, pathname=, flush
Header(cmd, pathname) ==
    << Pkt(<<"command", "=", cmd, "\n">>),
       Pkt(<<"pathname", "=">> \o pathname \o <<"\n">>),
       FlushPkt >>

\* the frames of a log, by direction
Written(events) == SelectSeq(events, LAMBDA e : e.op = "w")
ReadIn(events) == SelectSeq(events, LAMBDA e : e.op = "r")
\* the payload of the content frames of a response: what follows the status
\* and its flush
ResponseBody(events) ==
    LET w == Written(events)
    IN  Concat([i \in 1..(Len(w) - 2) |-> w[i + 2].pkt.data])

\* list(set): the order is unspecified; an enumeration and its reverse
RECURSIVE SeqOf(_)
SeqOf(S) == IF S = {} THEN <<>>
            ELSE LET x == CHOOSE y \in S : TRUE IN <<x>> \o SeqOf(S \ {x})
Reverse(s) == [i \in 1..Len(s) |-> s[Len(s) + 1 - i]]
Orders(S) == {SeqOf(S), Reverse(SeqOf(S))}

Solo(p) == \A q \in Procs \ {p} : pc[q] \in {"idle", "exit", "aborted"}

\* The repositories a run starts from.  "fresh": nothing cleaned yet.
\* "unrecorded": an earlier session cleaned PathA and was killed before its
\* session end, so its chunks are stored and staged but not in the index.
\* "partial": the same, and the index lists the first chunk only.
PriorInput == <<1, 0>>
PriorClean == clean(<<Pkt(PriorInput), FlushPkt>>, PathA, EmptyStore, {}, NoHints)
PriorManifest == ResponseBody(PriorClean.events)
PriorFirst == git_hash_blob(Slice(PriorInput, Head(fastcdc(PriorInput, avg_min))))
PriorWrite == write_cdcs(<<PriorFirst>>, PriorClean.base_hints, NoCommit, PriorClean.store)

FreshRepo ==
    [store |-> EmptyStore, ref |-> NoCommit,
     tracked |-> [p \in {PathN} |-> NotesText], cleaned |-> {}]
UnrecordedRepo ==
    [store |-> PriorClean.store, ref |-> NoCommit,
     tracked |-> [p \in {PathN, PathA} |-> IF p = PathA THEN PriorManifest ELSE NotesText],
     cleaned |-> {[input |-> PriorInput, manifest |-> PriorManifest]}]
PartialRepo ==
    [store |-> PriorWrite.store, ref |-> PriorWrite.commit,
     tracked |-> UnrecordedRepo.tracked, cleaned |-> UnrecordedRepo.cleaned]
InitRepos == {FreshRepo, UnrecordedRepo, PartialRepo}

InitProcs ==
    /\ pc = [p \in Procs |-> "idle"]
    /\ cdcs = [p \in Procs |-> {}]
    /\ cdcs_recent = [p \in Procs |-> {}]
    /\ base_hints = [p \in Procs |-> NoHints]
    /\ wflag = [p \in Procs |-> FALSE]
    /\ ncmd = [p \in Procs |-> 0]
    /\ log = [p \in Procs |-> <<>>]
    /\ commit = [p \in Procs |-> NoCommit]
    /\ force = [p \in Procs |-> FALSE]
    /\ to_write = [p \in Procs |-> {}]
    /\ tip0 = [p \in Procs |-> NoCommit]
    /\ batch = [p \in Procs |-> "none"]

InitSizer == size = 0 /\ avg_size = avg_min /\ prev_size = 0 /\ prev_avg = avg_min

\* no step-by-step run is under way
ClIdle == [pos |-> "idle", alive |-> FALSE, i |-> 0, trace |-> <<>>]
ChIdle ==
    [pos |-> "idle", n |-> 0, data_len |-> 0, chan |-> <<>>, pieces |-> <<>>,
     frames |-> <<>>, term |-> 0, count |-> 0]
CkIdle ==
    [pos |-> "idle", pathname |-> <<>>, data |-> <<>>, chunks |-> <<>>, i |-> 0,
     hash |-> "", emitted |-> <<>>]
InitSteps == cl = ClIdle /\ ch = ChIdle /\ ck = CkIdle
\* fastcdc.ondisk is not set: git_config_ondisk() returns b""
InitIdle == ondisk = FALSE /\ InitSteps

Init ==
    /\ \E repo \in InitRepos :
           /\ store = repo.store
           /\ ref = repo.ref
           /\ tracked = repo.tracked
           /\ cleaned = repo.cleaned
    /\ InitProcs
    /\ InitSizer
    /\ InitIdle

\* process(), lines 479-497: the handshake, then read_recent
Handshake(p, caps) ==
    /\ pc[p] = "idle"
    /\ IF {"clean", "smudge"} \subseteq caps
       THEN /\ pc' = [pc EXCEPT ![p] = "loop"]
            /\ cdcs_recent' = [cdcs_recent EXCEPT ![p] = read_recent(ref)]
       ELSE /\ pc' = [pc EXCEPT ![p] = "failed"]
            /\ UNCHANGED cdcs_recent
    /\ UNCHANGED <<cdcs, base_hints, wflag, ncmd, log, commit, force, to_write, tip0>>
    /\ UNCHANGED <<repoVars, sizerVars>>
    /\ batch' = [batch EXCEPT ![p] =
                     IF {"clean", "smudge"} \subseteq caps /\ ref # NoCommit
                     THEN "open" ELSE @]
    /\ UNCHANGED stepVars

\* one turn of the loop of lines 498-512 with command=clean; git stages the
\* manifest it gets back as the blob of the path
CleanCmd(p, pathname, data, cut) ==
    /\ pc[p] = "loop"
    /\ ncmd[p] < MaxCmds
    /\ LET stream == Frames(data, cut) \o <<FlushPkt>>
           r == IF ondisk THEN clean_ondisk(stream, pathname, store, cdcs[p], base_hints[p])
                ELSE clean(stream, pathname, store, cdcs[p], base_hints[p])
           events == RdEvents(Header("clean", pathname)) \o r.events
           manifest == ResponseBody(r.events)
       IN  /\ store' = r.store
           /\ cdcs' = [cdcs EXCEPT ![p] = r.cdcs]
           /\ base_hints' = [base_hints EXCEPT ![p] = r.base_hints]
           /\ log' = [log EXCEPT ![p] = events]
           /\ tracked' = [f \in DOMAIN tracked \cup {pathname} |->
                             IF f = pathname THEN manifest ELSE tracked[f]]
           /\ cleaned' = cleaned \cup {[input |-> data, manifest |-> manifest]}
    /\ wflag' = [wflag EXCEPT ![p] = TRUE]
    /\ ncmd' = [ncmd EXCEPT ![p] = @ + 1]
    /\ UNCHANGED <<pc, cdcs_recent, commit, force, to_write, tip0, ref, sizerVars>>
    /\ UNCHANGED <<batch, stepVars>>

\* one turn of the loop with command=smudge: git sends the staged blob
SmudgeCmd(p, pathname, cut) ==
    /\ pc[p] = "loop"
    /\ ncmd[p] < MaxCmds
    /\ pathname \in DOMAIN tracked
    /\ LET stream == Frames(tracked[pathname], cut) \o <<FlushPkt>>
           r == smudge(stream, store)
       IN  /\ log' = [log EXCEPT ![p] = RdEvents(Header("smudge", pathname)) \o r.events]
           /\ pc' = [pc EXCEPT ![p] = IF r.ok THEN "loop" ELSE "failed"]
    /\ ncmd' = [ncmd EXCEPT ![p] = @ + 1]
    /\ UNCHANGED <<cdcs, cdcs_recent, base_hints, wflag, commit, force, to_write, tip0>>
    /\ UNCHANGED <<repoVars, sizerVars>>
    /\ batch' = [batch EXCEPT ![p] = "open"]
    /\ UNCHANGED stepVars

\* the command read returns "": the loop ends, lines 515-518 ("eof": it
\* has returned "" already, on a flush or on the end of the stream)
EndInput(p) ==
    /\ pc[p] \in {"loop", "eof"}
    /\ LET delta == cdcs[p] \ cdcs_recent[p]
       IN  IF wflag[p] /\ delta # {}
           THEN /\ pc' = [pc EXCEPT ![p] = "write"]
                /\ to_write' = [to_write EXCEPT ![p] = delta]
           ELSE /\ pc' = [pc EXCEPT ![p] = "done"]
                /\ UNCHANGED to_write
    /\ UNCHANGED <<cdcs, cdcs_recent, base_hints, wflag, ncmd, log, commit, force, tip0>>
    /\ UNCHANGED <<repoVars, sizerVars>>
    /\ UNCHANGED <<batch, stepVars>>

\* write_cdcs, lines 405-430: trees, git_rev_parse, the commits
WriteTrees(p, cdclist) ==
    /\ pc[p] = "write"
    /\ LET r == write_cdcs(cdclist, base_hints[p], ref, store)
       IN  /\ commit' = [commit EXCEPT ![p] = r.commit]
           /\ force' = [force EXCEPT ![p] = r.force]
           /\ store' = r.store
    /\ tip0' = [tip0 EXCEPT ![p] = ref]
    /\ pc' = [pc EXCEPT ![p] = "branch"]
    /\ UNCHANGED <<cdcs, cdcs_recent, base_hints, wflag, ncmd, log, to_write>>
    /\ UNCHANGED <<ref, tracked, cleaned, sizerVars>>
    /\ UNCHANGED <<batch, stepVars>>

\* write_cdcs, line 432: git_branch
WriteBranch(p) ==
    /\ pc[p] = "branch"
    /\ LET g == git_branch(ref, commit[p], force[p])
       IN  /\ ref' = g.ref
           /\ pc' = [pc EXCEPT ![p] = IF g.ok THEN "done" ELSE "failed"]
    /\ UNCHANGED <<cdcs, cdcs_recent, base_hints, wflag, ncmd, log, commit, force,
                   to_write, tip0>>
    /\ UNCHANGED <<store, tracked, cleaned, sizerVars>>
    /\ UNCHANGED <<batch, stepVars>>

\* the process ends (for process(), through the finally of line 519, where
\* batch_cleanup runs); its memory is gone
Finish(p) ==
    /\ pc[p] \in {"done", "failed"}
    /\ pc' = [pc EXCEPT ![p] = IF pc[p] = "done" THEN "exit" ELSE "aborted"]
    /\ cdcs' = [cdcs EXCEPT ![p] = {}]
    /\ cdcs_recent' = [cdcs_recent EXCEPT ![p] = {}]
    /\ base_hints' = [base_hints EXCEPT ![p] = NoHints]
    /\ wflag' = [wflag EXCEPT ![p] = FALSE]
    /\ ncmd' = [ncmd EXCEPT ![p] = 0]
    /\ log' = [log EXCEPT ![p] = <<>>]
    /\ commit' = [commit EXCEPT ![p] = NoCommit]
    /\ force' = [force EXCEPT ![p] = FALSE]
    /\ to_write' = [to_write EXCEPT ![p] = {}]
    /\ tip0' = [tip0 EXCEPT ![p] = NoCommit]
    /\ UNCHANGED <<repoVars, sizerVars>>
    /\ batch' = [batch EXCEPT ![p] = IF p \in Sessions THEN "none" ELSE @]
    /\ UNCHANGED stepVars

\* update(), lines 526-549: the full scan, the matching files' staged
\* manifests read in the given order, and the difference
UpdateScan(entries) ==
    /\ pc[Updater] = "idle"
    /\ LET cdcs_log == read_cdcs(ref)
           r == ReadAllBlobs(entries, tracked, {}, cdcs_log.base_hints)
       IN  /\ cdcs_recent' = [cdcs_recent EXCEPT ![Updater] = cdcs_log.cdcs]
           /\ cdcs' = [cdcs EXCEPT ![Updater] = r.cdcs]
           /\ base_hints' = [base_hints EXCEPT ![Updater] = r.base_hints]
           /\ to_write' = [to_write EXCEPT ![Updater] = r.cdcs \ cdcs_log.cdcs]
           /\ pc' = [pc EXCEPT ![Updater] =
                        IF r.cdcs \ cdcs_log.cdcs # {} THEN "write" ELSE "done"]
    /\ UNCHANGED <<wflag, ncmd, log, commit, force, tip0>>
    /\ UNCHANGED <<repoVars, sizerVars>>
    /\ batch' = [batch EXCEPT ![Updater] = "none"]
    /\ UNCHANGED stepVars

Capabilities == {{"clean", "smudge"}, {"clean", "smudge", "delay"}, {"smudge"}}

\* One filter session and one update, one after the other: a process takes
\* a step only while the other is not running.
Next ==
    \/ \E caps \in Capabilities : Solo("s1") /\ Handshake("s1", caps)
    \/ \E pathname \in FilterPaths, data \in Contents :
           \E cut \in Cuts(data) : Solo("s1") /\ CleanCmd("s1", pathname, data, cut)
    \/ \E pathname \in FilterPaths :
           /\ pathname \in DOMAIN tracked
           /\ \E cut \in Cuts(tracked[pathname]) :
                  Solo("s1") /\ SmudgeCmd("s1", pathname, cut)
    \/ Solo("s1") /\ EndInput("s1")
    \/ \E p \in {"s1", Updater} : \E cdclist \in Orders(to_write[p]) :
           Solo(p) /\ WriteTrees(p, cdclist)
    \/ \E p \in {"s1", Updater} : Solo(p) /\ WriteBranch(p)
    \/ \E p \in {"s1", Updater} : Solo(p) /\ Finish(p)
    \/ \E entries \in Orders(check_files(DOMAIN tracked)) :
           Solo(Updater) /\ UpdateScan(entries)

Spec == Init /\ [][Next]_vars

(***************************************************************************)
(* Properties of one session and one update (Spec).                        *)
(***************************************************************************)
\* a log is the header (three frames read) and the handler's own frames
HandlerLog(l) == SubSeq(l, 4, Len(l))
LogCommand(l) == l[1].pkt.data[3]
\* what the handler read: the payloads of its content frames
HandlerInput(l) == Concat([i \in 1..Len(ReadIn(HandlerLog(l))) |->
                              ReadIn(HandlerLog(l))[i].pkt.data])
Lines(text) == splitlines(text)

\* C1: round trip.  Whenever smudge was given a manifest that a clean
\* command emitted, it completed and the content frames it wrote,
\* concatenated in order, are that clean's input, byte for byte.
C1_RoundTrip ==
    \A p \in Sessions :
        (log[p] # <<>> /\ LogCommand(log[p]) = "smudge") =>
            \A e \in cleaned :
                e.manifest = HandlerInput(log[p]) =>
                    /\ pc[p] # "failed"
                    /\ ResponseBody(HandlerLog(log[p])) = e.input

\* a two-chunk input was cleaned and its manifest, sent in two frames, smudged
C1_Witness ==
    \E p \in Sessions, e \in cleaned :
        /\ log[p] # <<>> /\ LogCommand(log[p]) = "smudge"
        /\ e.manifest = HandlerInput(log[p])
        /\ Len(Lines(e.manifest)) = 2
        /\ Len(ReadIn(HandlerLog(log[p]))) = 3
        /\ e.input = <<1, 0>>

\* C6: determinism.  Any two clean commands given the same bytes emitted the
\* same manifest, whatever the pathname, the working set and the commands
\* before them.
C6_Determinism ==
    \A a \in cleaned, b \in cleaned : a.input = b.input => a.manifest = b.manifest

\* one session cleaned the same two-chunk input under both pathnames, the
\* second time with its chunks already in the working set
C6_Witness ==
    /\ ncmd["s1"] = 2
    /\ PathA \in DOMAIN tracked /\ PathB \in DOMAIN tracked
    /\ tracked[PathA] = tracked[PathB]
    /\ Len(Lines(tracked[PathA])) = 2
    /\ LogCommand(log["s1"]) = "clean"
    /\ Cardinality(cleaned) = 1

\* C8: response ordering.  In the log of a command the handler's frames are:
\* content frames read, the terminator read, and only then the frames
\* written: status=success, a terminator, content frames, two terminators.
\* A session that can read its next command has a log of exactly that shape.
ReadsThenWrites(h) ==
    \E k \in 1..Len(h) :
        /\ \A i \in 1..k : h[i].op = "r"
        /\ \A i \in (k + 1)..Len(h) : h[i].op = "w"
        /\ h[k].pkt = FlushPkt
        /\ \A i \in 1..(k - 1) : h[i].pkt.len > 0
ResponseShape(w) ==
    /\ Len(w) >= 4
    /\ w[1].pkt = Pkt(StatusSuccess)
    /\ w[2].pkt = FlushPkt
    /\ w[Len(w) - 1].pkt = FlushPkt
    /\ w[Len(w)].pkt = FlushPkt
    /\ \A i \in 3..(Len(w) - 2) : w[i].pkt.len > 4

C8_ResponseOrdering ==
    \A p \in Sessions :
        log[p] # <<>> =>
            /\ ReadsThenWrites(HandlerLog(log[p]))
            /\ pc[p] # "failed" => ResponseShape(Written(log[p]))

\* a clean command read two content frames and wrote two manifest lines
C8_Witness ==
    /\ log["s1"] # <<>>
    /\ LogCommand(log["s1"]) = "clean"
    /\ Len(ReadIn(HandlerLog(log["s1"]))) = 3
    /\ Len(Written(log["s1"])) = 6

\* the hashes a manifest text references: the first word of each
\* "<hash>.cdc" line
RefHashes(text) ==
    {l[1] : l \in {x \in Range(splitlines(text)) :
                      Len(x) = 3 /\ x[2] = "." /\ x[3] = "cdc"}}
\* the hashes referenced by the staged manifests of the files under the
\* filter
TrackedHashes == UNION {RefHashes(tracked[f]) : f \in FilterPaths \cap DOMAIN tracked}
\* a full scan of the index as it is now
FullScan(branch) == read_cdcs(branch).cdcs
UpdateDone == pc[Updater] = "done"

\* C2 as stated: after update the full scan is exactly the set of hashes
\* the tracked manifests reference.
C2_ExactlyTracked == UpdateDone => FullScan(ref) = TrackedHashes

\* C2 as amended: after update the full scan is the full scan from before
\* the update (cdcs_log) united with the hashes the tracked manifests
\* reference: none of those is missing, and nothing the index held before is
\* removed.
C2_OldAndTracked ==
    UpdateDone => FullScan(ref) = cdcs_recent[Updater] \cup TrackedHashes

\* update appended a missing hash on top of an index that already existed
C2_Witness ==
    /\ UpdateDone
    /\ to_write[Updater] # {}
    /\ tip0[Updater] # NoCommit
    /\ ref = commit[Updater]
    /\ Cardinality(TrackedHashes) >= 2

\* the chunk hashes the tip snapshot of a commit lists
TipHashes(c) == IF c = NoCommit THEN {} ELSE {e.hash : e \in CdcEntries(c[Len(c)])}
IsPrefix(a, b) == Len(a) <= Len(b) /\ SubSeq(b, 1, Len(a)) = a
\* the chunk hashes of the units of b that are not units of a
NewUnitHashes(a, b) ==
    UNION {{e.hash : e \in CdcEntries(b[i])} : i \in (Len(a) + 1)..Len(b)}
\* process p has called write_cdcs and git_branch has returned
Appended(p) == pc[p] = "done" /\ to_write[p] # {}

SizeSamples ==
    {0, 1, 15, 16, 1048576}
    \cup {16 * (Pow2(b - 1) + j * Pow2(b - 4) + d) + r :
             b \in 17..MaxBits, j \in {0, 1, 7}, d \in {-1, 0}, r \in {0, 15}}

Measure(sz) ==
    /\ prev_size' = size
    /\ prev_avg' = avg_size
    /\ size' = sz
    /\ avg_size' = get_avg_size(sz)
    /\ UNCHANGED <<repoVars, sessionVars>>
    /\ UNCHANGED <<batch, stepVars>>

InitSizerRun ==
    /\ store = FreshRepo.store /\ ref = FreshRepo.ref
    /\ tracked = FreshRepo.tracked /\ cleaned = FreshRepo.cleaned
    /\ InitProcs
    /\ InitSizer
    /\ InitIdle

NextSizer == \E sz \in SizeSamples : Measure(sz)

SpecSizer == InitSizerRun /\ [][NextSizer]_vars

\* floor(sz / 16) with every bit below its top 4 significant bits cleared
QuantRef(sz) ==
    LET q == sz \div 16
        low == Max(bit_length(q) - 4, 0)
    IN  q - (q % Pow2(low))

\* C7: the result is max(262144, q); it is never below 262144, is 262144
\* for every size below 4718592 (where q first exceeds 262144), does not
\* decrease when the size grows, and is 262144 for size 1048576 (box 65536,
\* bit length 17).
C7_Sizer ==
    /\ avg_size = Max(262144, QuantRef(size))
    /\ avg_size >= 262144
    /\ size < 4718592 => avg_size = 262144
    /\ size = 4718592 => avg_size = 294912
    /\ prev_size <= size => prev_avg <= avg_size
    /\ size = 1048576 =>
           /\ Box(size) = 65536
           /\ bit_length(Box(size)) = 17
           /\ avg_size = 262144

\* two calls above the threshold, the larger size giving the larger result
C7_Witness ==
    /\ prev_size = 4718592 /\ prev_avg = 294912
    /\ size > prev_size /\ avg_size > prev_avg

(***************************************************************************)
(* Large appends (SpecPage): update has found n missing hashes and calls   *)
(* write_cdcs; n is around the multiples of the page size.                 *)
(***************************************************************************)
\* the binary digits of i, the content of the i-th chunk
RECURSIVE Bits(_)
Bits(i) == IF i < 2 THEN <<i>> ELSE Append(Bits(i \div 2), i % 2)
ChunkId(i) == ObjectId(Bits(i))

PageCounts ==
    {1, 2, 3} \cup {k * PageSize + d : k \in 1..MaxPages, d \in {-1, 0, 1}}

\* an index that exists already: one unit listing a chunk that is none of
\* the ChunkId(i)
OldChunk == ObjectId(<<0>>)
OldIndex ==
    write_cdcs(<<OldChunk>>, [h \in {OldChunk} |-> make_hint(PathA)],
               NoCommit, EmptyStore).commit

HintChoices(S) == {NoHints, [h \in S |-> make_hint(PathB)]}

InitPage ==
    /\ \E n \in PageCounts, old \in {NoCommit, OldIndex} :
           \E bh \in HintChoices({ChunkId(i) : i \in 1..n}) :
               /\ ref = old
               /\ to_write = [p \in Procs |->
                                 IF p = Updater THEN {ChunkId(i) : i \in 1..n} ELSE {}]
               /\ cdcs = to_write
               /\ cdcs_recent = [p \in Procs |->
                                    IF p = Updater THEN FullScan(old) ELSE {}]
               /\ base_hints = [p \in Procs |-> IF p = Updater THEN bh ELSE NoHints]
    /\ pc = [p \in Procs |-> IF p = Updater THEN "write" ELSE "idle"]
    /\ store = EmptyStore
    /\ tracked = FreshRepo.tracked
    /\ cleaned = {}
    /\ wflag = [p \in Procs |-> FALSE]
    /\ ncmd = [p \in Procs |-> 0]
    /\ log = [p \in Procs |-> <<>>]
    /\ commit = [p \in Procs |-> NoCommit]
    /\ force = [p \in Procs |-> FALSE]
    /\ tip0 = [p \in Procs |-> NoCommit]
    /\ batch = [p \in Procs |-> "none"]
    /\ InitSizer
    /\ InitIdle

\* list(cdcs) in ascending or descending order of the chunk number
BigOrders(n) ==
    {[i \in 1..n |-> ChunkId(i)], [i \in 1..n |-> ChunkId(n + 1 - i)]}

NextPage ==
    \/ \E cdclist \in BigOrders(Cardinality(to_write[Updater])) :
           WriteTrees(Updater, cdclist)
    \/ WriteBranch(Updater)
    \/ Finish(Updater)

SpecPage == InitPage /\ [][NextPage]_vars

\* the units of commit b that commit a does not have
NewUnits(a, b) == [i \in 1..(Len(b) - Len(a)) |-> b[Len(a) + i]]
\* the commit an append of all the hashes in one tree would make
Unpaginated(tip, S, bh) ==
    git_commit_tree({CdcEntry(c, bh) : c \in S} \cup {AttrsEntry}, tip)

\* C5: an append of n > 1500 hashes creates ceil(n / 1500) units chained on
\* the old tip, each with at most 1500 chunk entries and exactly one
\* .gitattributes entry, the reference ends on the last one, and a full scan
\* returns the old full-scan set united with the n hashes, as an
\* unpaginated append would.
C5_Pagination ==
    LET p == Updater
        n == Cardinality(to_write[p])
        units == NewUnits(tip0[p], commit[p])
    IN  (Appended(p) /\ n > 1500) =>
            /\ IsPrefix(tip0[p], commit[p])
            /\ Len(units) = (n + 1499) \div 1500
            /\ \A i \in 1..Len(units) :
                   /\ Cardinality(CdcEntries(units[i])) <= 1500
                   /\ Cardinality(CdcEntries(units[i])) >= 1
                   /\ units[i] \ CdcEntries(units[i]) = {AttrsEntry}
            /\ ref = commit[p]
            /\ FullScan(ref) = FullScan(tip0[p]) \cup to_write[p]
            /\ read_cdcs(ref) = read_cdcs(Unpaginated(tip0[p], to_write[p], base_hints[p]))

\* 3001 hashes appended on an existing index: three units
C5_Witness ==
    /\ Appended(Updater)
    /\ Cardinality(to_write[Updater]) = 2 * 1500 + 1
    /\ tip0[Updater] # NoCommit
    /\ Len(commit[Updater]) = Len(tip0[Updater]) + 3

(***************************************************************************)
(* Two filter sessions at once (SpecRace): git runs two filter processes   *)
(* on one repository, each cleans files under its own path, and their      *)
(* steps interleave freely; they share the object store and the index      *)
(* reference only.                                                         *)
(***************************************************************************)
RacePath(p) == IF p = "s1" THEN PathA ELSE PathB
\* what the two sessions clean: files of one chunk and a file of two
RaceContents == {<<0>>, <<1>>, <<0, 1>>, <<1, 0>>}

NextRace ==
    \/ \E p \in Sessions : Handshake(p, {"clean", "smudge"})
    \/ \E p \in Sessions, data \in RaceContents :
           /\ ncmd[p] < MaxRaceCmds
           /\ CleanCmd(p, RacePath(p), data, 0)
    \/ \E p \in Sessions : EndInput(p)
    \/ \E p \in Sessions : \E cdclist \in Orders(to_write[p]) : WriteTrees(p, cdclist)
    \/ \E p \in Sessions : WriteBranch(p)
    \/ \E p \in Sessions : Finish(p)

SpecRace == Init /\ [][NextRace]_vars

(***************************************************************************)
(* Properties of two concurrent sessions (SpecRace).                       *)
(***************************************************************************)
\* process p has run write_cdcs up to its commits, on the tip tip0[p]
Wrote(p) == pc[p] \in {"branch", "done", "failed"} /\ to_write[p] # {}
Covered(p) == tip0[p] # NoCommit /\ to_write[p] \subseteq TipHashes(tip0[p])

C9_Reconstructible ==
    \A e \in cleaned :
        LET r == smudge(Frames(e.manifest, 0) \o <<FlushPkt>>, store)
        IN  /\ RefHashes(e.manifest) \subseteq DOMAIN store
            /\ r.ok
            /\ ResponseBody(r.events) = e.input

\* both sessions cleaned and appended, and the reference lost the entries
\* of one of them
C9_Witness ==
    \E p \in Sessions, q \in Sessions :
        /\ pc[p] = "done" /\ pc[q] = "done"
        /\ Wrote(p) /\ Wrote(q)
        /\ ref = commit[q]
        /\ ~(to_write[p] \subseteq FullScan(ref))
        /\ \E e \in cleaned : RefHashes(e.manifest) = to_write[p]

\* p and q each read the reference before the other one moved it, each
\* appended hashes of its own, and both have run git_branch
Raced(p, q) ==
    /\ p # q
    /\ Wrote(p) /\ Wrote(q)
    /\ to_write[p] \cap to_write[q] = {}
    /\ tip0[p] = tip0[q]
    /\ pc[p] \in {"done", "failed"} /\ pc[q] \in {"done", "failed"}

\* C10 as stated: from an index with or without a lineage both appends
\* complete, and the reference ends at one writer's last unit (the later
\* one's) from which the other writer's units cannot be reached.
C10_BothComplete ==
    \A p \in Sessions, q \in Sessions :
        Raced(p, q) =>
            /\ pc[p] = "done" /\ pc[q] = "done"
            /\ ref \in {commit[p], commit[q]}
            /\ (ref = commit[q] /\ commit[p] # commit[q]) =>
                   ~IsPrefix(commit[p], ref)

(***************************************************************************)
(* Input the protocol does not allow (SpecProto): a command that is        *)
(* neither clean nor smudge, and a stream that ends inside a command.      *)
(***************************************************************************)
OtherCommands == {"list_available_blobs"}
\* what follows the command line: "bare" a flush and no pathname line (how
\* git sends list_available_blobs), "next" pathname, flush and then the
\* next command, "empty" pathname, flush and the flush of an empty content
\* section, "data" pathname, flush and a content frame
OtherForms == {"bare", "next", "empty", "data"}

\* one turn of the loop of lines 498-514 with such a command: neither
\* branch of the if is taken, and the loop reads the next frame as a
\* command line
OtherCmd(p, command, pathname, form, data) ==
    /\ pc[p] = "loop"
    /\ ncmd[p] < MaxCmds
    /\ command \notin {"clean", "smudge"}
    /\ data # <<>>
    /\ LET hdr == Header(command, pathname)
           frames == CASE form = "bare" -> <<hdr[1], FlushPkt>>
                       [] form = "next" -> hdr
                       [] form = "empty" -> hdr \o <<FlushPkt>>
                       [] form = "data" -> hdr \o <<Pkt(data)>>
       IN  /\ log' = [log EXCEPT ![p] = RdEvents(frames)]
           /\ pc' = [pc EXCEPT ![p] =
                        CASE form = "bare" -> "failed"   \* assert key == "pathname"
                          [] form = "next" -> "loop"
                          [] form = "empty" -> "eof"
                          [] form = "data" -> "failed"]  \* assert key == "command"
    /\ ncmd' = [ncmd EXCEPT ![p] = @ + 1]
    /\ UNCHANGED <<cdcs, cdcs_recent, base_hints, wflag, commit, force, to_write, tip0>>
    /\ UNCHANGED <<repoVars, sizerVars, batch, stepVars>>

\* How a stream ends inside the content of a command.  "eof": after a whole
\* frame.  "prefix": inside a length prefix whose digits read as v; int()
\* takes them, and read(v - 4) at the end of the stream returns b"" unless
\* v - 4 < -1, which read() rejects (ValueError).  "payload": inside a
\* payload, which read(length - 4) returns short.
ShortPrefix(v) == [len |-> v, data |-> <<>>]
ShortPayload(data) == [len |-> Len(data) + 4, data |-> SubSeq(data, 1, Len(data) - 1)]
Tears == {"eof", "prefix_low", "prefix_high", "payload"}
Torn(frames, tear) ==
    CASE tear = "eof" -> frames
      [] tear = "prefix_low" -> frames \o <<ShortPrefix(1)>>
      [] tear = "prefix_high" -> frames \o <<ShortPrefix(31)>>
      [] tear = "payload" ->
             IF frames = <<>> THEN <<>>
             ELSE SubSeq(frames, 1, Len(frames) - 1)
                  \o <<ShortPayload(frames[Len(frames)].data)>>

\* command=clean whose content frames end that way.  `out`: the peer still
\* reads what the filter writes; if not, the first write raises
\* BrokenPipeError (line 262).
TornClean(p, pathname, data, cut, tear, out) ==
    /\ pc[p] = "loop"
    /\ ncmd[p] < MaxCmds
    /\ LET stream == Torn(Frames(data, cut), tear)
           r == clean(stream, pathname, store, cdcs[p], base_hints[p])
           hdr == RdEvents(Header("clean", pathname))
       IN  IF tear = "prefix_low"
           THEN /\ log' = [log EXCEPT ![p] = hdr \o RdEvents(stream)]
                /\ pc' = [pc EXCEPT ![p] = "failed"]
                /\ UNCHANGED <<store, cdcs, base_hints>>
           ELSE IF ~out
           THEN /\ log' = [log EXCEPT ![p] = hdr \o ReadIn(r.events)]
                /\ pc' = [pc EXCEPT ![p] = "failed"]
                /\ UNCHANGED <<store, cdcs, base_hints>>
           ELSE /\ log' = [log EXCEPT ![p] = hdr \o r.events]
                /\ pc' = [pc EXCEPT ![p] = "eof"]
                /\ store' = r.store
                /\ cdcs' = [cdcs EXCEPT ![p] = r.cdcs]
                /\ base_hints' = [base_hints EXCEPT ![p] = r.base_hints]
    /\ wflag' = [wflag EXCEPT ![p] = TRUE]
    /\ ncmd' = [ncmd EXCEPT ![p] = @ + 1]
    /\ UNCHANGED <<cdcs_recent, commit, force, to_write, tip0>>
    /\ UNCHANGED <<ref, tracked, cleaned, sizerVars, batch, stepVars>>

\* command=smudge whose manifest frames end that way
TornSmudge(p, pathname, cut, tear, out) ==
    /\ pc[p] = "loop"
    /\ ncmd[p] < MaxCmds
    /\ pathname \in DOMAIN tracked
    /\ LET stream == Torn(Frames(tracked[pathname], cut), tear)
           r == smudge(stream, store)
           hdr == RdEvents(Header("smudge", pathname))
       IN  IF tear = "prefix_low"
           THEN /\ log' = [log EXCEPT ![p] = hdr \o RdEvents(stream)]
                /\ pc' = [pc EXCEPT ![p] = "failed"]
                /\ UNCHANGED batch
           ELSE IF ~out
           THEN /\ log' = [log EXCEPT ![p] = hdr \o ReadIn(r.events)]
                /\ pc' = [pc EXCEPT ![p] = "failed"]
                /\ UNCHANGED batch
           ELSE /\ log' = [log EXCEPT ![p] = hdr \o r.events]
                /\ pc' = [pc EXCEPT ![p] = IF r.ok THEN "eof" ELSE "failed"]
                /\ batch' = [batch EXCEPT ![p] = "open"]
    /\ ncmd' = [ncmd EXCEPT ![p] = @ + 1]
    /\ UNCHANGED <<cdcs, cdcs_recent, base_hints, wflag, commit, force, to_write, tip0>>
    /\ UNCHANGED <<repoVars, sizerVars, stepVars>>


ProtoContents == {<<1>>, <<1, 0>>}

\* One filter session whose peer may send such input.
NextProto ==
    \/ Handshake("s1", {"clean", "smudge"})
    \/ \E data \in ProtoContents : CleanCmd("s1", PathA, data, 0)
    \/ SmudgeCmd("s1", PathA, 0)
    \/ \E command \in OtherCommands, form \in OtherForms :
           OtherCmd("s1", command, PathA, form, <<1>>)
    \/ \E data \in ProtoContents, tear \in Tears, out \in BOOLEAN :
           \E cut \in Cuts(data) : TornClean("s1", PathB, data, cut, tear, out)
    \/ \E tear \in Tears, out \in BOOLEAN : TornSmudge("s1", PathA, 0, tear, out)
    \/ EndInput("s1")
    \/ \E cdclist \in Orders(to_write["s1"]) : WriteTrees("s1", cdclist)
    \/ WriteBranch("s1")
    \/ Finish("s1")

SpecProto == Init /\ [][NextProto]_vars

(***************************************************************************)
(* Properties of a session under such input (SpecProto).                   *)
(***************************************************************************)
\* C11: once the loop has read a command line whose command is neither
\* clean nor smudge the session has aborted: it is not back at the head of
\* the loop to read a further command, and it does not go on to a normal
\* end.
C11_UnexpectedFatal ==
    \A p \in Sessions :
        (log[p] # <<>> /\ LogCommand(log[p]) \notin {"clean", "smudge"}) =>
            pc[p] = "failed"

\* the content frames of the logged command did not end with a flush: the
\* last frame read is a payload, a cut payload or a cut prefix, or nothing
\* was read at all
TornLog(l) ==
    /\ l # <<>>
    /\ LogCommand(l) \in {"clean", "smudge"}
    /\ LET r == ReadIn(HandlerLog(l))
       IN  r = <<>> \/ r[Len(r)].pkt # FlushPkt

\* the hashes of the chunks of the content a logged clean command read
ChunkHashes(input) ==
    {git_hash_blob(Slice(input, c)) :
        c \in Range(fastcdc(input, get_avg_size(Len(input))))}
\* the hashes that completed clean commands have put on manifest lines
EmittedHashes == UNION {RefHashes(e.manifest) : e \in cleaned}

\* C12: a command whose content frames stop before the flush aborts the
\* session: the handler has written no frame (no status, no manifest
\* line), no chunk of the partial content is in the store unless a
\* completed clean put it there, and the session does not go on to append
\* to the index.
C12_TeardownFatal ==
    \A p \in Sessions :
        TornLog(log[p]) =>
            /\ pc[p] = "failed"
            /\ Written(log[p]) = <<>>
            /\ LogCommand(log[p]) = "clean" =>
                   ChunkHashes(HandlerInput(log[p])) \cap DOMAIN store
                       \subseteq EmittedHashes
            /\ to_write[p] = {}


(***************************************************************************)
(* Smudge of manifests as a checkout can hold them (SpecSmudge): lines of  *)
(* stored chunks, a line of a chunk the store does not have (the chunk     *)
(* objects were not fetched), empty lines and lines of blanks.             *)
(***************************************************************************)
MissingChunk == ObjectId(<<1, 1>>)
ManifestLines ==
    { ManifestLine(ObjectId(<<1>>)), ManifestLine(ObjectId(<<0>>)),
      ManifestLine(MissingChunk), <<"\n">>, <<" ", "\n">> }
Manifests == {Concat(ls) : ls \in UNION {[1..n -> ManifestLines] : n \in 1..MaxLines}}

InitSmudge ==
    /\ \E m \in Manifests :
           tracked = [f \in {PathN, PathA} |-> IF f = PathA THEN m ELSE NotesText]
    /\ store = PriorClean.store
    /\ ref = NoCommit
    /\ cleaned = UnrecordedRepo.cleaned
    /\ InitProcs
    /\ InitSizer
    /\ InitIdle

NextSmudge ==
    \/ Handshake("s1", {"clean", "smudge"})
    \/ \E cut \in Cuts(tracked[PathA]) : SmudgeCmd("s1", PathA, cut)
    \/ EndInput("s1")
    \/ Finish("s1")

SpecSmudge == InitSmudge /\ [][NextSmudge]_vars

\* the lines of the manifest a logged smudge read, those that hold more
\* than blanks, and the hash such a line names (its first word)
NonBlank(line) == \E i \in 1..Len(line) : line[i] \notin Whitespace
HashOf(line) ==
    line[CHOOSE i \in 1..Len(line) :
             line[i] \notin Whitespace /\ \A j \in 1..(i - 1) : line[j] \in Whitespace]
Wanted(l) == SelectSeq(splitlines(HandlerInput(l)), NonBlank)
Resolves(line) == HashOf(line) \in DOMAIN store
\* the wanted lines before the first one that does not resolve
Leading(w) ==
    IF \A i \in 1..Len(w) : Resolves(w[i]) THEN w
    ELSE SubSeq(w, 1, (CHOOSE i \in 1..Len(w) :
                          ~Resolves(w[i]) /\ \A j \in 1..(i - 1) : Resolves(w[j])) - 1)
BlobsOf(w) == Concat([i \in 1..Len(w) |-> store[HashOf(w[i])]])
Flushes(w) == Len(SelectSeq(w, LAMBDA e : e.pkt = FlushPkt))
SmudgeLogged(p) == log[p] # <<>> /\ LogCommand(log[p]) = "smudge"

\* C13 as stated: smudge skips the lines that are empty or do not resolve:
\* it completes with the closing terminators and has written the bytes of
\* the other lines, in order.
C13_SkipsUnresolved ==
    \A p \in Sessions :
        SmudgeLogged(p) =>
            /\ pc[p] # "failed"
            /\ ResponseShape(Written(log[p]))
            /\ ResponseBody(HandlerLog(log[p]))
                   = BlobsOf(SelectSeq(Wanted(log[p]), Resolves))

\* C13 as amended: smudge skips the lines that are empty or hold only
\* blanks: it writes nothing for them and goes on with the next line.  A
\* line whose hash does not resolve is not skipped: smudge ends there with
\* an error, having written the status, its terminator and the bytes of the
\* lines before that one, and no closing terminator.  When every line that
\* is not blank resolves, smudge completes with the two closing terminators
\* and has written the bytes of those lines, in order.
C13_SkipsBlank ==
    \A p \in Sessions :
        SmudgeLogged(p) =>
            LET w == Wanted(log[p])
                out == Written(log[p])
            IN  /\ ResponseBody(HandlerLog(log[p])) = BlobsOf(Leading(w))
                /\ out[1].pkt = Pkt(StatusSuccess) /\ out[2].pkt = FlushPkt
                /\ IF Leading(w) = w
                   THEN pc[p] # "failed" /\ ResponseShape(out) /\ Flushes(out) = 3
                   ELSE pc[p] = "failed" /\ Flushes(out) = 1

\* a manifest with an empty line between two lines that resolve was smudged
C13_Witness ==
    \E p \in Sessions :
        /\ SmudgeLogged(p)
        /\ pc[p] = "loop"
        /\ Len(splitlines(HandlerInput(log[p]))) = 3
        /\ ~NonBlank(splitlines(HandlerInput(log[p]))[2])
        /\ Len(Wanted(log[p])) = 2
        /\ ResponseBody(HandlerLog(log[p])) = <<1, 0>>


(***************************************************************************)
(* batch_cleanup statement by statement (SpecCleanup), next to a git       *)
(* cat-file subprocess that exits when it likes, or never.  cl.trace is    *)
(* what happened, in order: the calls batch_cleanup made and the exit of   *)
(* the subprocess.  Times are in milliseconds.                             *)
(***************************************************************************)
batch_cleanup_times == <<1, 10, 100, 200, 400>>

Ev(op, ms) == [op |-> op, ms |-> ms]

\* variant: terminate is sent whatever the poll of line 144 returned
cleanup_next_blind(pos, alive, i) ==
    CASE pos = "close_in" -> "close_out"
      [] pos = "close_out" -> "loop"
      [] pos = "loop" -> IF alive THEN "sleep" ELSE "check"
      [] pos = "sleep" -> IF i + 1 = Len(batch_cleanup_times) THEN "check" ELSE "loop"
      [] pos = "check" -> "term"
      [] pos = "term" -> "wait"
      [] pos = "wait" -> "check2"
      [] pos = "check2" -> IF alive THEN "warn" ELSE "clear"
      [] pos = "warn" -> "kill"
      [] pos = "kill" -> "clear"
      [] pos = "clear" -> "returned"

\* the statement that follows the one at pos; `alive`: poll() returns None;
\* i: the sleeps of the loop done so far
cleanup_next(pos, alive, i) ==
    CASE pos = "close_in" -> "close_out"                          \* line 138
      [] pos = "close_out" -> "loop"                              \* line 139
      [] pos = "loop" -> IF alive THEN "sleep" ELSE "check"       \* lines 141-142
      [] pos = "sleep" ->                                         \* line 143
             IF i + 1 = Len(batch_cleanup_times) THEN "check" ELSE "loop"
      [] pos = "check" -> IF alive THEN "term" ELSE "clear"       \* line 144
      [] pos = "term" -> "wait"                                   \* line 145
      [] pos = "wait" -> "check2"                                 \* line 146
      [] pos = "check2" -> IF alive THEN "warn" ELSE "clear"      \* line 147
      [] pos = "warn" -> "kill"                                   \* line 148
      [] pos = "kill" -> "clear"                                  \* line 149
      [] pos = "clear" -> "returned"                              \* line 150

\* what the statement at pos does
cleanup_event(pos, i) ==
    CASE pos = "close_in" -> Ev("close_stdin", 0)
      [] pos = "close_out" -> Ev("close_stdout", 0)
      [] pos \in {"loop", "check", "check2"} -> Ev("poll", 0)
      [] pos = "sleep" -> Ev("sleep", batch_cleanup_times[i + 1])
      [] pos = "term" -> Ev("terminate", 0)
      [] pos = "wait" -> Ev("sleep", 1000)
      [] pos = "warn" -> Ev("eprint", 0)
      [] pos = "kill" -> Ev("kill", 0)
      [] pos = "clear" -> Ev("clear", 0)

\* one statement of batch_cleanup in process p
CleanupStep(p) ==
    /\ cl.pos \notin {"idle", "returned"}
    /\ IF cl.pos = "start"
       THEN /\ cl' = [cl EXCEPT !.pos = IF batch[p] = "open" THEN "close_in"
                                        ELSE "returned"]
            /\ UNCHANGED batch
       ELSE /\ cl' = [cl EXCEPT !.pos = cleanup_next(cl.pos, cl.alive, cl.i),
                                !.i = IF cl.pos = "sleep" THEN @ + 1 ELSE @,
                                !.trace = Append(@, cleanup_event(cl.pos, cl.i))]
            /\ batch' = [batch EXCEPT ![p] = IF cl.pos = "clear" THEN "none" ELSE @]
    /\ UNCHANGED <<repoVars, sizerVars, sessionVars, ondisk, ch, ck>>

\* the subprocess exits: on the end of its input, on a signal, or for a
\* reason of its own
ProcExit ==
    /\ cl.pos \notin {"idle", "returned"}
    /\ cl.alive
    /\ cl' = [cl EXCEPT !.alive = FALSE, !.trace = Append(@, Ev("exit", 0))]
    /\ UNCHANGED <<repoVars, sizerVars, sessionVars, batch, ondisk, ch, ck>>

\* process() has reached its finally, with or without an exception; the
\* channel was opened or not, and the subprocess may have died already
InitCleanup ==
    /\ \E repo \in InitRepos :
           /\ store = repo.store /\ ref = repo.ref
           /\ tracked = repo.tracked /\ cleaned = repo.cleaned
    /\ \E b \in {"none", "open"}, a \in BOOLEAN, end \in {"done", "failed"} :
           /\ b = "none" => ~a
           /\ batch = [p \in Procs |-> IF p = "s1" THEN b ELSE "none"]
           /\ cl = [pos |-> "start", alive |-> a, i |-> 0, trace |-> <<>>]
           /\ pc = [p \in Procs |-> IF p = "s1" THEN end ELSE "idle"]
    /\ cdcs = [p \in Procs |-> {}]
    /\ cdcs_recent = [p \in Procs |-> {}]
    /\ base_hints = [p \in Procs |-> NoHints]
    /\ wflag = [p \in Procs |-> FALSE]
    /\ ncmd = [p \in Procs |-> 0]
    /\ log = [p \in Procs |-> <<>>]
    /\ commit = [p \in Procs |-> NoCommit]
    /\ force = [p \in Procs |-> FALSE]
    /\ to_write = [p \in Procs |-> {}]
    /\ tip0 = [p \in Procs |-> NoCommit]
    /\ InitSizer
    /\ ondisk = FALSE /\ ch = ChIdle /\ ck = CkIdle

NextCleanup == CleanupStep("s1") \/ ProcExit

\* batch_cleanup runs on: nothing in it waits for anything but the clock
SpecCleanup == InitCleanup /\ [][NextCleanup]_vars /\ WF_vars(CleanupStep("s1"))


\* the calls batch_cleanup made, in order, without the exit of the
\* subprocess
Calls(tr) == SelectSeq(tr, LAMBDA e : e.op # "exit")
\* the waits of the polling loop: every sleep but the one after terminate
LoopWaits(tr) ==
    LET sl == SelectSeq(tr, LAMBDA e : e.op = "sleep" /\ e.ms # 1000)
    IN  [k \in 1..Len(sl) |-> sl[k].ms]
\* the subprocess had exited before a poll that came before position k
SeenDeadBefore(tr, k) ==
    \E j \in 1..k, m \in 1..k : j < m /\ m < k /\ tr[j].op = "exit" /\ tr[m].op = "poll"
CleanupSafe ==
    LET tr == cl.trace
        c == Calls(tr)
    IN  /\ Len(c) >= 1 => c[1].op = "close_stdin"
        /\ Len(c) >= 2 => c[2].op = "close_stdout"
        /\ \A k \in 3..Len(c) : c[k].op \notin {"close_stdin", "close_stdout"}
        /\ LoopWaits(tr) = SubSeq(<<1, 10, 100, 200, 400>>, 1, Len(LoopWaits(tr)))
        /\ \A k \in 1..Len(c) :
               /\ (c[k].op = "sleep" /\ c[k].ms # 1000) => c[k - 1].op = "poll"
               /\ c[k].op = "terminate" => c[k - 1].op = "poll"
               /\ (c[k].op = "sleep" /\ c[k].ms = 1000) => c[k - 1].op = "terminate"
               /\ c[k].op = "eprint" =>
                      /\ c[k - 1].op = "poll"
                      /\ c[k - 2] = Ev("sleep", 1000)
               /\ c[k].op = "kill" => c[k - 1].op = "eprint"
        /\ \A k \in 1..Len(tr) :
               tr[k].op \in {"terminate", "kill"} => ~SeenDeadBefore(tr, k)
        /\ Len(SelectSeq(c, LAMBDA e : e.op = "terminate")) <= 1
        /\ Len(SelectSeq(c, LAMBDA e : e.op = "kill")) <= 1
        /\ cl.pos = "returned" =>
               /\ batch["s1"] = "none"
               /\ c # <<>> => c[Len(c)].op = "clear"

Filler(k) == IF k = RecentLimit THEN ObjectId(<<0>>) ELSE ChunkId(3 + k)
FillerData(k) == IF k = RecentLimit THEN <<0>> ELSE Bits(3 + k)
RECURSIVE LongIndex(_)
LongIndex(k) ==
    IF k = 0 THEN PriorWrite.commit
    ELSE write_cdcs(<<Filler(k)>>, NoHints, LongIndex(k - 1), EmptyStore).commit
LongRepo ==
    [store |-> [h \in DOMAIN PriorWrite.store \cup {Filler(k) : k \in 1..RecentLimit} |->
                   IF h \in DOMAIN PriorWrite.store THEN PriorWrite.store[h]
                   ELSE FillerData(CHOOSE k \in 1..RecentLimit : Filler(k) = h)],
     ref |-> LongIndex(RecentLimit),
     tracked |-> UnrecordedRepo.tracked, cleaned |-> UnrecordedRepo.cleaned]

InitWindow ==
    /\ \E repo \in {FreshRepo, PartialRepo, LongRepo} :
           /\ store = repo.store
           /\ ref = repo.ref
           /\ tracked = repo.tracked
           /\ cleaned = repo.cleaned
    /\ InitProcs
    /\ InitSizer
    /\ InitIdle

\* one filter session, alone
NextWindow ==
    \/ \E caps \in Capabilities : Handshake("s1", caps)
    \/ \E pathname \in FilterPaths, data \in Contents : CleanCmd("s1", pathname, data, 0)
    \/ \E pathname \in FilterPaths : SmudgeCmd("s1", pathname, 0)
    \/ EndInput("s1")
    \/ \E cdclist \in Orders(to_write["s1"]) : WriteTrees("s1", cdclist)
    \/ WriteBranch("s1")
    \/ Finish("s1")

SpecWindow == InitWindow /\ [][NextWindow]_vars

\* the chunk hashes the last 10 units of a commit's history list
WindowHashes(c) ==
    UNION {{e.hash : e \in CdcEntries(c[i])} : i \in Max(1, Len(c) - 9)..Len(c)}

\* C15: a session that ended normally after appending has appended exactly
\* its working set minus the hashes of the last 10 units of the index as it
\* was at the session's start; a session that ended normally without a
\* clean command, or whose working set is within those units, has not
\* called write_cdcs, and the step that ends it leaves the index reference
\* unchanged.
C15_SessionDelta ==
    /\ [](\A p \in Sessions :
             Appended(p) =>
                 /\ cdcs_recent[p] = WindowHashes(tip0[p])
                 /\ NewUnitHashes(tip0[p], commit[p]) = cdcs[p] \ WindowHashes(tip0[p])
                 /\ ref = commit[p])
    /\ [][\A p \in Sessions :
             (pc[p] \in {"loop", "eof"} /\ pc'[p] \in {"write", "done"}) =>
                 /\ (pc'[p] = "done") <=>
                        (~wflag[p] \/ cdcs[p] \subseteq WindowHashes(ref))
                 /\ pc'[p] = "done" =>
                        /\ ref' = ref
                        /\ commit'[p] = NoCommit
                        /\ to_write'[p] = {}]_vars

\* a session appended a hash that an old unit of the index lists, out of
\* the window of 10, and did not append one that the window lists
C15_Witness ==
    \E p \in Sessions :
        /\ Appended(p)
        /\ Len(tip0[p]) > 10
        /\ to_write[p] \cap FullScan(tip0[p]) # {}
        /\ cdcs[p] \cap WindowHashes(tip0[p]) # {}


(***************************************************************************)
(* git_cat_yield read by read on the channel of git cat-file --batch       *)
(* (SpecYield).  The channel is what the subprocess has written and the    *)
(* filter has not read yet, as segments of bytes: a header line that       *)
(* advertises a size, that many content bytes, a line terminator.          *)
(***************************************************************************)
Seg(kind, len) == [kind |-> kind, len |-> len]
\* the answer of cat-file to one request for a blob of n bytes
Response(n) ==
    <<Seg("header", n)>> \o (IF n > 0 THEN <<Seg("content", n)>> ELSE <<>>) \o <<Seg("lf", 1)>>

\* stdout.read(k): the next k bytes, whatever they are
RECURSIVE ChanRead(_, _)
ChanRead(chan, k) ==
    IF k = 0 \/ chan = <<>> THEN [got |-> 0, kinds |-> {}, chan |-> chan]
    ELSE IF Head(chan).len > k
         THEN [got |-> k, kinds |-> {Head(chan).kind},
               chan |-> <<Seg(Head(chan).kind, Head(chan).len - k)>> \o Tail(chan)]
         ELSE LET r == ChanRead(Tail(chan), k - Head(chan).len)
              IN  [got |-> Head(chan).len + r.got,
                   kinds |-> {Head(chan).kind} \cup r.kinds, chan |-> r.chan]

\* stdout.readline(): up to and with the next line feed; a read that starts
\* in content bytes has lost the framing ("lost")
ChanReadline(chan) ==
    IF chan = <<>> THEN [kind |-> "lost", len |-> 0, chan |-> chan]
    ELSE IF Head(chan).kind = "content" THEN [kind |-> "lost", len |-> 0, chan |-> Tail(chan)]
    ELSE [kind |-> Head(chan).kind, len |-> Head(chan).len, chan |-> Tail(chan)]

\* variant: the rest below chunk_size is not read
yield_step_no_rest(data_len, chunk_size) ==
    IF data_len >= chunk_size
    THEN [read |-> chunk_size, data_len |-> data_len - chunk_size]
    ELSE [read |-> 0, data_len |-> 0]

\* one pass of the loop of lines 124-130
yield_step(data_len, chunk_size) ==
    IF data_len >= chunk_size
    THEN [read |-> chunk_size, data_len |-> data_len - chunk_size]
    ELSE [read |-> data_len, data_len |-> 0]

\* the digits f"{length:04x}" writes
RECURSIVE HexWidth(_)
HexWidth(length) == IF length < 16 THEN 1 ELSE 1 + HexWidth(length \div 16)
PrefixWidth(length) == Max(4, HexWidth(length))

\* the sizes of the blobs looked up: around every multiple of pkt_size
YieldSizes == {k * pkt_size + d : k \in 0..MaxSplit, d \in {0, 1, pkt_size - 1}}

\* lines 119-120: the request is written, cat-file answers
YieldRequest(n) ==
    /\ ch.pos \in {"idle", "synced"}
    /\ ch.count < MaxLines
    /\ ch' = [ch EXCEPT !.pos = "header", !.n = n, !.chan = @ \o Response(n),
                        !.pieces = <<>>, !.frames = <<>>, !.term = 0,
                        !.count = @ + 1]

\* lines 121-123: the header line, its last word is the size
YieldHeader ==
    /\ ch.pos = "header"
    /\ LET l == ChanReadline(ch.chan)
       IN  ch' = IF l.kind = "header"
                 THEN [ch EXCEPT !.pos = "body", !.data_len = l.len, !.chan = l.chan]
                 ELSE [ch EXCEPT !.pos = "lost", !.chan = l.chan]

\* lines 124-130 and smudge, line 315: one piece is read, yielded and
\* written as a frame
YieldPiece ==
    /\ ch.pos = "body"
    /\ ch.data_len > 0
    /\ LET y == yield_step(ch.data_len, pkt_size)
           r == ChanRead(ch.chan, y.read)
       IN  ch' = [ch EXCEPT !.data_len = y.data_len, !.chan = r.chan,
                            !.pieces = Append(@, [len |-> r.got, kinds |-> r.kinds]),
                            !.frames = Append(@, [len |-> r.got + 4,
                                                  width |-> PrefixWidth(r.got + 4)])]

\* line 131: the line after the content
YieldTerm ==
    /\ ch.pos = "body"
    /\ ch.data_len = 0
    /\ LET l == ChanReadline(ch.chan)
       IN  ch' = IF l.kind = "lf"
                 THEN [ch EXCEPT !.pos = "synced", !.term = l.len, !.chan = l.chan]
                 ELSE [ch EXCEPT !.pos = "lost", !.chan = l.chan]

\* smudge has opened the channel and looks up the lines of a manifest
InitYield ==
    /\ store = UnrecordedRepo.store /\ ref = UnrecordedRepo.ref
    /\ tracked = UnrecordedRepo.tracked /\ cleaned = UnrecordedRepo.cleaned
    /\ pc = [p \in Procs |-> IF p = "s1" THEN "loop" ELSE "idle"]
    /\ batch = [p \in Procs |-> IF p = "s1" THEN "open" ELSE "none"]
    /\ cdcs = [p \in Procs |-> {}]
    /\ cdcs_recent = [p \in Procs |-> {}]
    /\ base_hints = [p \in Procs |-> NoHints]
    /\ wflag = [p \in Procs |-> FALSE]
    /\ ncmd = [p \in Procs |-> 0]
    /\ log = [p \in Procs |-> <<>>]
    /\ commit = [p \in Procs |-> NoCommit]
    /\ force = [p \in Procs |-> FALSE]
    /\ to_write = [p \in Procs |-> {}]
    /\ tip0 = [p \in Procs |-> NoCommit]
    /\ InitSizer
    /\ ondisk = FALSE /\ cl = ClIdle /\ ch = ChIdle /\ ck = CkIdle

YieldUnchanged ==
    UNCHANGED <<pc, cdcs, cdcs_recent, base_hints, wflag, ncmd, log, commit, force,
                to_write, tip0, repoVars, sizerVars, batch, ondisk, cl, ck>>

NextYield ==
    \/ \E n \in YieldSizes : YieldRequest(n) /\ YieldUnchanged
    \/ YieldHeader /\ YieldUnchanged
    \/ YieldPiece /\ YieldUnchanged
    \/ YieldTerm /\ YieldUnchanged

SpecYield == InitYield /\ [][NextYield]_vars

RECURSIVE SumLen(_)
SumLen(ps) == IF ps = <<>> THEN 0 ELSE Head(ps).len + SumLen(Tail(ps))

\* C16: git_cat_yield yields pieces of 1..65516 content bytes; when the
\* lookup of an object of advertised size n is consumed the lengths sum to
\* n, one line terminator of one byte has been read and nothing of the
\* response is left on the channel, so that the next read starts at the
\* next header and no read ever loses the framing; every content frame
\* written has a payload of 1..65516 bytes and a prefix of 4 hex digits.
C16_InSync ==
    /\ ch.pos # "lost"
    /\ \A i \in 1..Len(ch.pieces) :
           /\ ch.pieces[i].len \in 1..65516
           /\ ch.pieces[i].kinds = {"content"}
    /\ ch.pos = "synced" =>
           /\ SumLen(ch.pieces) = ch.n
           /\ ch.term = 1
           /\ ch.chan = <<>>
    /\ ch.pos = "body" => ch.chan # <<>> /\ Head(ch.chan).kind \in {"content", "lf"}
    /\ ch.pos = "header" => Head(ch.chan).kind = "header"
    /\ \A i \in 1..Len(ch.frames) :
           /\ ch.frames[i].len - 4 \in 1..65516
           /\ ch.frames[i].width = 4

\* a second lookup is consumed in step after a first one; it was cut in
\* full pieces and a rest
C16_Witness ==
    /\ ch.pos = "synced"
    /\ ch.count = 2
    /\ Len(ch.pieces) = 3
    /\ ch.pieces[3].len < pkt_size
    /\ ch.n = 2 * pkt_size + 1


(***************************************************************************)
(* update statement by statement, with the .gitattributes of the working   *)
(* tree as an input, next to a session (SpecTeardown).                     *)
(***************************************************************************)
FilterWord == "filter=git_fastcdc"
\* the file GitAttributes stands for, line by line
AttrLines ==
    << <<"*", ".", "bin", " ", FilterWord>>,
       <<"/", ".", "gitattributes", " ", "text">>,
       <<"/", ".", "gitignore", " ", "text">> >>
\* the same with a remark on top
RemarkLines ==
    << <<"#", " ", "don", "'", "t", " ", "drop", " ", FilterWord>> >> \o AttrLines
AttrFiles == {AttrLines, RemarkLines}

\* shlex.split(line): the quote the line ends in ("" when none is open); an
\* open quote is "No closing quotation" (ValueError)
RECURSIVE QuoteAtEnd(_, _)
QuoteAtEnd(line, q) ==
    IF line = <<>> THEN q
    ELSE IF q = ""
         THEN QuoteAtEnd(Tail(line), IF Head(line) \in {"'", "\""} THEN Head(line) ELSE "")
         ELSE QuoteAtEnd(Tail(line), IF Head(line) = q THEN "" ELSE q)
RECURSIVE FirstWord(_)
FirstWord(line) ==
    IF line = <<>> \/ Head(line) = " " THEN <<>>
    ELSE <<Head(line)>> \o FirstWord(Tail(line))
shlex_split(line) ==
    [ok |-> QuoteAtEnd(line, "") = "", first |-> FirstWord(line)]

\* lines 533-539: every line that holds the filter word is split
AttrsSplit(file) ==
    \A i \in 1..Len(file) : FilterWord \in Range(file[i]) => shlex_split(file[i]).ok
AttrsRecords(file) ==
    [i \in 1..Len(file) |->
        [match |-> shlex_split(file[i]).first, filter |-> FilterWord \in Range(file[i])]]

\* update, lines 526-531: read_cdcs; read_trees opens the channel when the
\* index branch exists
UpdateOpen ==
    /\ pc[Updater] = "idle"
    /\ LET cdcs_log == read_cdcs(ref)
       IN  /\ cdcs_recent' = [cdcs_recent EXCEPT ![Updater] = cdcs_log.cdcs]
           /\ base_hints' = [base_hints EXCEPT ![Updater] = cdcs_log.base_hints]
    /\ batch' = [batch EXCEPT ![Updater] = IF ref # NoCommit THEN "open" ELSE @]
    /\ pc' = [pc EXCEPT ![Updater] = "attrs"]
    /\ UNCHANGED <<cdcs, wflag, ncmd, log, commit, force, to_write, tip0>>
    /\ UNCHANGED <<repoVars, sizerVars, stepVars>>

\* update, lines 533-539: the patterns; an exception of shlex.split leaves
\* update there and then, no handler is in scope
UpdateAttrs(file) ==
    /\ pc[Updater] = "attrs"
    /\ AttrsSplit(file) => AttrsRecords(file) = GitAttributes
    /\ pc' = [pc EXCEPT ![Updater] = IF AttrsSplit(file) THEN "scan" ELSE "aborted"]
    /\ UNCHANGED <<cdcs, cdcs_recent, base_hints, wflag, ncmd, log, commit, force,
                   to_write, tip0>>
    /\ UNCHANGED <<repoVars, sizerVars, batch, stepVars>>

\* update, lines 540-549: the staged manifests are read inside try, the
\* finally runs batch_cleanup; then the difference
UpdateRead(entries) ==
    /\ pc[Updater] = "scan"
    /\ LET r == ReadAllBlobs(entries, tracked, {}, base_hints[Updater])
           d == r.cdcs \ cdcs_recent[Updater]
       IN  /\ cdcs' = [cdcs EXCEPT ![Updater] = r.cdcs]
           /\ base_hints' = [base_hints EXCEPT ![Updater] = r.base_hints]
           /\ to_write' = [to_write EXCEPT ![Updater] = d]
           /\ pc' = [pc EXCEPT ![Updater] = IF d # {} THEN "write" ELSE "done"]
    /\ batch' = [batch EXCEPT ![Updater] = "none"]
    /\ UNCHANGED <<cdcs_recent, wflag, ncmd, log, commit, force, tip0>>
    /\ UNCHANGED <<repoVars, sizerVars, stepVars>>

NextTeardown ==
    \/ Solo("s1") /\ Handshake("s1", {"clean", "smudge"})
    \/ \E data \in ProtoContents : Solo("s1") /\ CleanCmd("s1", PathA, data, 0)
    \/ Solo("s1") /\ SmudgeCmd("s1", PathA, 0)
    \/ \E data \in ProtoContents, tear \in Tears, out \in BOOLEAN :
           Solo("s1") /\ TornClean("s1", PathB, data, 0, tear, out)
    \/ Solo("s1") /\ EndInput("s1")
    \/ \E p \in {"s1", Updater} : \E cdclist \in Orders(to_write[p]) :
           Solo(p) /\ WriteTrees(p, cdclist)
    \/ \E p \in {"s1", Updater} : Solo(p) /\ WriteBranch(p)
    \/ \E p \in {"s1", Updater} : Solo(p) /\ Finish(p)
    \/ Solo(Updater) /\ UpdateOpen
    \/ \E file \in AttrFiles : Solo(Updater) /\ UpdateAttrs(file)
    \/ \E entries \in Orders(check_files(DOMAIN tracked)) :
           Solo(Updater) /\ UpdateRead(entries)

SpecTeardown == Init /\ [][NextTeardown]_vars

\* C17: a process or update command that has exited, by its end or by an
\* exception, has no batch channel left open: batch_cleanup has run after
\* the last time the channel was opened.
C17_TornDown ==
    \A p \in Procs : pc[p] \in {"exit", "aborted"} => batch[p] = "none"


(***************************************************************************)
(* clean statement by statement; the session may be ended by an exception  *)
(* or a signal between any two statements (SpecClean).                     *)
(***************************************************************************)
\* variant: git hash-object names the blob and the write is left for later
hash_object_deferred(st, data) == [hash |-> ObjectId(data), store |-> st]

\* git hash-object -w -t blob --stdin: the blob is in the store when the id
\* is returned
hash_object(st, data) == [hash |-> git_hash_blob(data), store |-> StoreBlob(st, data)]

\* lines 256-265: the content is read, sized and cut, the status is written
CkBegin(p, pathname, data) ==
    /\ pc[p] = "loop"
    /\ ncmd[p] < MaxCmds
    /\ ck.pos = "idle"
    /\ LET chunks == fastcdc(data, get_avg_size(Len(data)))
       IN  ck' = [pos |-> IF chunks = <<>> THEN "end" ELSE "hash",
                  pathname |-> pathname, data |-> data, chunks |-> chunks,
                  i |-> 1, hash |-> "", emitted |-> <<>>]
    /\ pc' = [pc EXCEPT ![p] = "clean"]
    /\ wflag' = [wflag EXCEPT ![p] = TRUE]
    /\ UNCHANGED <<cdcs, cdcs_recent, base_hints, ncmd, log, commit, force, to_write, tip0>>
    /\ UNCHANGED <<repoVars, sizerVars, batch, ondisk, cl, ch>>

\* lines 266-267
CkHash(p) ==
    /\ pc[p] = "clean" /\ ck.pos = "hash"
    /\ LET r == hash_object(store, Slice(ck.data, ck.chunks[ck.i]))
       IN  /\ store' = r.store
           /\ ck' = [ck EXCEPT !.pos = "add", !.hash = r.hash]
    /\ UNCHANGED <<pc, cdcs, cdcs_recent, base_hints, wflag, ncmd, log, commit, force,
                   to_write, tip0>>
    /\ UNCHANGED <<ref, tracked, cleaned, sizerVars, batch, ondisk, cl, ch>>

\* line 268
CkAdd(p) ==
    /\ pc[p] = "clean" /\ ck.pos = "add"
    /\ cdcs' = [cdcs EXCEPT ![p] = @ \cup {ck.hash}]
    /\ ck' = [ck EXCEPT !.pos = "hint"]
    /\ UNCHANGED <<pc, cdcs_recent, base_hints, wflag, ncmd, log, commit, force,
                   to_write, tip0>>
    /\ UNCHANGED <<repoVars, sizerVars, batch, ondisk, cl, ch>>

\* line 269
CkHint(p) ==
    /\ pc[p] = "clean" /\ ck.pos = "hint"
    /\ base_hints' = [base_hints EXCEPT ![p] =
                         [h \in DOMAIN @ \cup {ck.hash} |->
                             IF h = ck.hash THEN make_hint(ck.pathname) ELSE @[h]]]
    /\ ck' = [ck EXCEPT !.pos = "line"]
    /\ UNCHANGED <<pc, cdcs, cdcs_recent, wflag, ncmd, log, commit, force, to_write, tip0>>
    /\ UNCHANGED <<repoVars, sizerVars, batch, ondisk, cl, ch>>

\* line 270, and the next turn of the loop
CkLine(p) ==
    /\ pc[p] = "clean" /\ ck.pos = "line"
    /\ ck' = [ck EXCEPT !.emitted = Append(@, ck.hash),
                        !.i = @ + 1,
                        !.pos = IF ck.i < Len(ck.chunks) THEN "hash" ELSE "end"]
    /\ UNCHANGED <<pc, cdcs, cdcs_recent, base_hints, wflag, ncmd, log, commit, force,
                   to_write, tip0>>
    /\ UNCHANGED <<repoVars, sizerVars, batch, ondisk, cl, ch>>

\* lines 271-272: the two flush packets; git stages the manifest
CkEnd(p) ==
    /\ pc[p] = "clean" /\ ck.pos = "end"
    /\ LET lines == [i \in 1..Len(ck.emitted) |->
                        write_pkt_line_str(ManifestLine(ck.emitted[i]))]
           events == RdEvents(Header("clean", ck.pathname))
                     \o RdEvents(Frames(ck.data, 0) \o <<FlushPkt>>)
                     \o WrEvents(<<write_pkt_line_str(StatusSuccess), flush_pkt>>)
                     \o WrEvents(lines \o <<flush_pkt, flush_pkt>>)
           manifest == ResponseBody(events)
       IN  /\ log' = [log EXCEPT ![p] = events]
           /\ tracked' = [f \in DOMAIN tracked \cup {ck.pathname} |->
                             IF f = ck.pathname THEN manifest ELSE tracked[f]]
           /\ cleaned' = cleaned \cup {[input |-> ck.data, manifest |-> manifest]}
    /\ ck' = CkIdle
    /\ pc' = [pc EXCEPT ![p] = "loop"]
    /\ ncmd' = [ncmd EXCEPT ![p] = @ + 1]
    /\ UNCHANGED <<cdcs, cdcs_recent, base_hints, wflag, commit, force, to_write, tip0>>
    /\ UNCHANGED <<store, ref, sizerVars, batch, ondisk, cl, ch>>

\* an exception leaves clean and the command loop: hash-object failed, git
\* has closed the pipe, the process got a signal; the lines git has read
\* stay read
CkAbort(p) ==
    /\ pc[p] = "clean"
    /\ ck' = [ck EXCEPT !.pos = "left"]
    /\ pc' = [pc EXCEPT ![p] = "failed"]
    /\ UNCHANGED <<cdcs, cdcs_recent, base_hints, wflag, ncmd, log, commit, force,
                   to_write, tip0>>
    /\ UNCHANGED <<repoVars, sizerVars, batch, ondisk, cl, ch>>

NextClean ==
    \/ Handshake("s1", {"clean", "smudge"})
    \/ \E pathname \in FilterPaths, data \in Contents : CkBegin("s1", pathname, data)
    \/ CkHash("s1")
    \/ CkAdd("s1")
    \/ CkHint("s1")
    \/ CkLine("s1")
    \/ CkEnd("s1")
    \/ CkAbort("s1")
    \/ EndInput("s1")
    \/ \E cdclist \in Orders(to_write["s1"]) : WriteTrees("s1", cdclist)
    \/ WriteBranch("s1")
    \/ Finish("s1")

SpecClean == Init /\ [][NextClean]_vars

\* C18: at every point of a clean command, and after the session has left
\* it by an exception, every hash written on a manifest line so far, the
\* hash the current turn holds and every hash of the working set names a
\* blob of the object store, and the blob is the chunk the hash was made of.
C18_DurableFirst ==
    /\ \A i \in 1..Len(ck.emitted) :
           /\ ck.emitted[i] \in DOMAIN store
           /\ store[ck.emitted[i]] = Slice(ck.data, ck.chunks[i])
    /\ ck.pos \in {"add", "hint", "line"} => ck.hash \in DOMAIN store
    /\ \A p \in Sessions : cdcs[p] \subseteq DOMAIN store

\* the session was ended inside a clean after a manifest line that names a
\* chunk no unit of the index lists
C18_Witness ==
    /\ pc["s1"] \in {"failed", "aborted"}
    /\ ck.pos = "left"
    /\ ck.i <= Len(ck.chunks)
    /\ \E i \in 1..Len(ck.emitted) :
           /\ ck.emitted[i] \notin FullScan(ref)
           /\ ck.emitted[i] \in DOMAIN store


(***************************************************************************)
(* Two filter sessions and one update, one run after the other in any      *)
(* order (SpecSeq).                                                        *)
(***************************************************************************)
NextSeq ==
    \/ \E p \in Sessions : Solo(p) /\ Handshake(p, {"clean", "smudge"})
    \/ \E p \in Sessions, data \in RaceContents :
           /\ ncmd[p] < MaxRaceCmds
           /\ Solo(p) /\ CleanCmd(p, RacePath(p), data, 0)
    \/ \E p \in Sessions : Solo(p) /\ EndInput(p)
    \/ \E p \in Procs : \E cdclist \in Orders(to_write[p]) : Solo(p) /\ WriteTrees(p, cdclist)
    \/ \E p \in Procs : Solo(p) /\ WriteBranch(p)
    \/ \E p \in Procs : Solo(p) /\ Finish(p)
    \/ \E entries \in Orders(check_files(DOMAIN tracked)) :
           Solo(Updater) /\ UpdateScan(entries)

SpecSeq == Init /\ [][NextSeq]_vars

\* C19: when no two runs overlap, no step takes a hash out of the full
\* scan of the index; a step that moves the index reference puts it on a
\* commit that has the previous tip as an ancestor; and when a session has
\* come to its normal end every hash of its working set is in the full
\* scan.
C19_OnlyGrows ==
    /\ [][/\ FullScan(ref) \subseteq FullScan(ref')
          /\ ref' # ref => (IsPrefix(ref, ref') /\ Len(ref') > Len(ref))]_vars
    /\ [](\A p \in Sessions : pc[p] = "done" => cdcs[p] \subseteq FullScan(ref))

\* the third of three runs has appended to an index that earlier runs had
\* appended to
C19_Witness ==
    /\ Appended("s2")
    /\ pc["s1"] = "exit"
    /\ pc[Updater] = "exit"
    /\ Len(ref) >= 3
    /\ FullScan(tip0["s2"]) # {}
    /\ cdcs["s2"] \subseteq FullScan(ref)


(***************************************************************************)
(* A session with fastcdc.ondisk set or not (SpecModes).                   *)
(***************************************************************************)
\* git config --local --get fastcdc.ondisk gives b"true" or something else
InitModes ==
    /\ store = PartialRepo.store
    /\ ref = PartialRepo.ref
    /\ tracked = PartialRepo.tracked
    /\ cleaned = PartialRepo.cleaned
    /\ InitProcs
    /\ InitSizer
    /\ ondisk \in BOOLEAN
    /\ InitSteps

NextModes ==
    \/ Handshake("s1", {"clean", "smudge"})
    \/ \E data \in Contents :
           \E cut \in Cuts(data) : CleanCmd("s1", PathB, data, cut)
    \/ SmudgeCmd("s1", PathA, 0)
    \/ EndInput("s1")
    \/ \E cdclist \in Orders(to_write["s1"]) : WriteTrees("s1", cdclist)
    \/ WriteBranch("s1")
    \/ Finish("s1")

SpecModes == InitModes /\ [][NextModes]_vars

\* the pathname of a command's header
LogPath(l) == SubSeq(l[2].pkt.data, 3, Len(l[2].pkt.data) - 1)
\* the frames a handler has read
FramesIn(l) == [i \in 1..Len(ReadIn(HandlerLog(l))) |-> ReadIn(HandlerLog(l))[i].pkt]
CleanStep(p) ==
    /\ ncmd'[p] = ncmd[p] + 1
    /\ LogCommand(log'[p]) = "clean"

\* C20: whatever a clean command has done in the mode the session runs in
\* (the frames it wrote, the store, the working set and the hint map it
\* left) is what the handler of the other mode does on the same pathname,
\* the same frames read and the same state before; and the two handlers
\* compute the same size and average size.
C20_ModeEquivalence ==
    [][\A p \in Sessions :
          CleanStep(p) =>
              LET stream == FramesIn(log'[p])
                  pathname == LogPath(log'[p])
                  mem == clean(stream, pathname, store, cdcs[p], base_hints[p])
                  disk == clean_ondisk(stream, pathname, store, cdcs[p], base_hints[p])
                  other == IF ondisk THEN mem ELSE disk
              IN  /\ HandlerLog(log'[p]) = other.events
                  /\ store' = other.store
                  /\ cdcs'[p] = other.cdcs
                  /\ base_hints'[p] = other.base_hints
                  /\ mem.size = disk.size
                  /\ mem.avg_size = disk.avg_size]_vars

\* a session in the spooled mode has cleaned a content of two chunks that
\* came in two frames
C20_Witness ==
    /\ ondisk
    /\ log["s1"] # <<>>
    /\ LogCommand(log["s1"]) = "clean"
    /\ Len(FramesIn(log["s1"])) = 3
    /\ Len(Lines(ResponseBody(HandlerLog(log["s1"])))) = 2
    /\ cdcs["s1"] \subseteq DOMAIN store

====
